---------------------------- MODULE Spec2Model ----------------------------
(***************************************************************************)
(* A model of the planet generator's simulation core:                      *)
(*   - TemporalEvolution (utils/TemporalEvolution.ts): the simulated clock, *)
(*     the snapshot history and the derivation of evolved settings;         *)
(*   - WeatherSystem (utils/WeatherSystem.ts): the storm population;       *)
(*   - ColorPalettes (utils/ColorPalettes.ts): palettes and height colours; *)
(*   - PlanetRenderer (components/PlanetRenderer.tsx): the settings effect, *)
(*     the animation loop and the texel arithmetic of the textures;        *)
(*   - VideoRecorder and CameraSystem: their timers.                       *)
(*                                                                         *)
(* Numbers.  The program computes in IEEE doubles; the model computes in   *)
(* exact fixed point and so leaves floating-point rounding out:            *)
(*   ratios, knobs, noise, intensities   thousandths  (Milli = 1.0)        *)
(*   deltaTime                           tenths of a second                *)
(*   timeSpeed                           tenths  (1 = 0.1x, 10 = 1x)       *)
(*   clocks, ages, lifespans             hundredths of a time unit         *)
(***************************************************************************)
EXTENDS Integers, Sequences, FiniteSets, TLC

VARIABLES
    heap,          \* object store: slot -> PlanetSettings record (or NoObject)
    currentTime,   \* TemporalEvolution.currentTime
    snapshots,     \* TemporalEvolution.snapshots
    lastEvolved,   \* the last getTemporallyEvolvedSettings call: its argument and clock
    lastOp,        \* the last operation called, its arguments and the state before it
    temporalPaused,\* the caller's run state: settings.temporalPaused
    evBase,        \* pure-function check: base settings given to the derivation
    evTs,          \* pure-function check: temporal settings given to it
    evOut,         \* pure-function check: the evolved settings returned
    stormSystems,  \* WeatherSystem.stormSystems
    weatherTime,   \* WeatherSystem.currentTime
    nextId,        \* number of storms spawned so far (identifies storm objects)
    removed,       \* the storms the last update filtered out, as they were then
    lastUpdate,    \* the last WeatherSystem operation and its arguments
    lattices,      \* WeatherSystem.globalWindPattern / temperatureMap: their shape and build count
    lastQuery,     \* the last read-only call, its arguments and what it returned
    saveLog,       \* the clock values saveSnapshot stored since the history was last emptied
    settings,      \* PlanetRenderer: the settings prop of the latest render
    mountSettings, \* PlanetRenderer: the settings the mount effect (and animate) closed over
    textures,      \* PlanetRenderer: what generatePlanetTexture / generateCloudTexture were last given
    engines,       \* PlanetRenderer: the settings its engines were constructed from, and how many were built
    recorder,      \* VideoRecorder: isRecording and which recording it is
    timeouts,      \* VideoRecorder: the pending setTimeout callbacks
    now,           \* VideoRecorder: the time of the event loop, in seconds
    intervals,     \* CameraSystem: the setInterval timers that are scheduled
    autoOrbitInterval  \* CameraSystem: (this as any).autoOrbitInterval, 0 while it is unset or null

vars == <<heap, currentTime, snapshots, lastEvolved, lastOp, temporalPaused, evBase, evTs, evOut,
          stormSystems, weatherTime, nextId, removed, lastUpdate, lattices, lastQuery,
          saveLog, settings, mountSettings, textures, engines, recorder, timeouts, now,
          intervals, autoOrbitInterval>>

temporalVars == <<heap, currentTime, snapshots, lastEvolved, lastOp, temporalPaused>>
evolveVars   == <<evBase, evTs, evOut>>
weatherVars  == <<stormSystems, weatherTime, nextId, removed, lastUpdate, lattices>>
queryVars    == <<lastQuery>>
historyVars  == <<saveLog>>
rendererVars == <<settings, mountSettings, textures, engines>>
recorderVars == <<recorder, timeouts, now>>
cameraVars   == <<intervals, autoOrbitInterval>>
otherVars    == <<historyVars, rendererVars, recorderVars, cameraVars>>

---------------------------------------------------------------------------
(* Scales and bounds *)

Milli == 1000

\* The clock may advance to at most MaxClock hundredths of a year.
MaxClock == 6

\* At most MaxSnaps snapshots are saved before the history is reset.
MaxSnaps == 1

None == [none |-> TRUE]

Min(a, b) == IF a < b THEN a ELSE b
Max(a, b) == IF a > b THEN a ELSE b

---------------------------------------------------------------------------
(* Settings records *)

\* The fields of PlanetSettings that TemporalEvolution reads or writes.
PlanetSettingsOf(seed, l, c, m, cl, a, cd) ==
    [seed |-> seed, landWaterRatio |-> l, coastlineComplexity |-> c,
     mountainDensity |-> m, climate |-> cl, atmosphere |-> a, clouds |-> cd]

\* TemporalSettings, as the renderer builds it from the planet settings.
TemporalSettingsOf(geo, wc, shift, ero, speed, paused, tect, ocean, atmo) ==
    [geologicalTime |-> geo, weatherCycle |-> wc, climaticShift |-> shift,
     erosionLevel |-> ero, timeSpeed |-> speed, isPaused |-> paused,
     showTemporalEffects |-> TRUE, tectonicActivity |-> tect,
     oceanLevel |-> ocean, atmosphericEvolution |-> atmo]

\* The defaults of the page (landWaterRatio 0.4 ... clouds 0.6) with seed 42.
defaultSettings == PlanetSettingsOf(42, 400, 500, 300, 500, 400, 600)


---------------------------------------------------------------------------
(* NoiseGenerator and Math.sin.  NoiseGenerator is imported by the sources *)
(* but is not among them; it is modelled from its contract: a             *)
(* deterministic function of (seed, x, y, z) with values in [-1, 1].       *)

\* x is given in millionths, y and z in thousandths; the value is in thousandths.
Noise(seed, x, y, z) ==
    ((((seed % 21) + 31 * (x % 1009) + 17 * (y % 1013) + 7 * (z % 1019)) % 21) - 10) * 100

\* Math.sin of an angle in milliradians, in thousandths (Bhaskara's approximation).
Sin(x) ==
    LET pi   == 3142
        r    == x % (2 * pi)
        half == IF r < pi THEN r ELSE r - pi
        p    == (half * (pi - half)) \div 1000
        v    == (16000 * p) \div (49350 - 4 * p)
    IN  IF r < pi THEN v ELSE 0 - v

---------------------------------------------------------------------------
(* TemporalEvolution.getTemporallyEvolvedSettings: the derivation *)

Clamp01_unclamped(v) == v

\* Math.max(0, Math.min(1, v))
Clamp01(v) == Max(0, Min(Milli, v))

GeologicalActive_always(ts) == ts.geologicalTime >= 0

\* if (temporalSettings.geologicalTime > 0)
GeologicalActive(ts) == ts.geologicalTime > 0

\* The noise and sine samples the derivation draws at clock `time`:
\* temporalNoise is seeded seed + 50000, weatherNoise seed + 60000.
NoiseSamples(seed, time, ts) ==
    LET geoScale == ts.geologicalTime * 10
    IN  [mountain |-> Noise(seed + 50000, time * 10, 0, geoScale),
         coast    |-> Noise(seed + 50000, time * 5, geoScale, 0),
         ocean    |-> Noise(seed + 50000, time * 8, geoScale * 2, 0),
         climate  |-> Noise(seed + 50000, time * 2, ts.climaticShift * 5, 0),
         atmo     |-> Noise(seed + 50000, time, 0, ts.atmosphericEvolution * 3),
         weather  |-> Noise(seed + 60000, time * 200, ts.weatherCycle * 2, 0),
         sin      |-> Sin((time * ts.weatherCycle) \div 10000)]

\* The geological branch: mountains, coastline, oceans, each from the base value.
EvolveGeological(base, ts, n) ==
    LET mountainCycle      == (n.mountain * 3) \div 10
        erosionFactor      == (ts.erosionLevel * ts.erosionLevel) \div Milli
        coastlineSmoothing == (erosionFactor * 4) \div 10
        oceanCycle         == (n.ocean * 3) \div 10
    IN  [base EXCEPT
            !.mountainDensity = Clamp01(base.mountainDensity
                                   + (mountainCycle * ts.tectonicActivity) \div Milli),
            !.coastlineComplexity = Clamp01(base.coastlineComplexity - coastlineSmoothing
                                   + (n.coast * 2) \div 10),
            !.landWaterRatio = Clamp01(base.landWaterRatio + oceanCycle + ts.oceanLevel)]

\* The evolved record: `evolved` starts as a copy of base; each branch that is
\* taken overwrites its fields; the weather branch reads the evolved atmosphere.
Evolved(base, ts, n) ==
    LET e1 == IF GeologicalActive(ts) THEN EvolveGeological(base, ts, n) ELSE base
        e2 == IF ts.climaticShift > 0
              THEN [e1 EXCEPT !.climate = Clamp01(base.climate
                        + (((n.climate * ts.climaticShift) \div Milli) * 5) \div 10)]
              ELSE e1
        e3 == IF ts.atmosphericEvolution > 0
              THEN [e2 EXCEPT !.atmosphere = Clamp01(base.atmosphere
                        + (((n.atmo * ts.atmosphericEvolution) \div Milli) * 4) \div 10)]
              ELSE e2
        seasonalCycle == (n.sin * 3) \div 10
        weatherNoise  == (n.weather * 4) \div 10
        e4 == IF ts.weatherCycle > 0
              THEN [e3 EXCEPT
                      !.clouds = Clamp01(base.clouds + seasonalCycle
                                   + (weatherNoise * ts.weatherCycle) \div Milli),
                      !.atmosphere = Clamp01(e3.atmosphere + (seasonalCycle \div 10))]
              ELSE e3
    IN  e4

---------------------------------------------------------------------------
(* TemporalEvolution: the engine *)

\* The objects the engine and its caller hold.
Slots == {"planetSettings", "baseSettings", "evolved"}

SpreadTarget_alias(source, fresh) == source

\* { ...source } allocates a new object: writes go to `fresh`, never to `source`.
SpreadTarget(source, fresh) == fresh

AdvancedClock_ignoresPause(time, deltaTime, ts) == time + deltaTime * ts.timeSpeed

\* if (!isPaused) currentTime += deltaTime * timeSpeed
AdvancedClock(time, deltaTime, ts) ==
    IF ~ts.isPaused THEN time + deltaTime * ts.timeSpeed ELSE time

FastForwarded_assigns(time, duration) == duration

\* currentTime += duration
FastForwarded(time, duration) == time + duration

Rewound_unclamped(time, duration) == time - duration

\* currentTime = Math.max(0, currentTime - duration)
Rewound(time, duration) == Max(0, time - duration)

ClearedHistory_kept(history) == history

\* this.snapshots = []
ClearedHistory(history) == << >>

\* The snapshot saveSnapshot builds: the base fields and the clock.
SnapshotOf(base, time) ==
    [landWaterRatio |-> base.landWaterRatio, mountainDensity |-> base.mountainDensity,
     coastlineComplexity |-> base.coastlineComplexity, climate |-> base.climate,
     atmosphere |-> base.atmosphere, clouds |-> base.clouds, timestamp |-> time]

\* What lastOp records: the call, and the clock and history length it found.
OpOf(name, deltaTime, duration, ts) ==
    [op |-> name, deltaTime |-> deltaTime, duration |-> duration, ts |-> ts,
     before |-> [time |-> currentTime, saved |-> Len(snapshots)],
     repeat |-> /\ lastEvolved # None
                /\ lastEvolved.ts = ts
                /\ lastEvolved.time = currentTime]

NoOp == [op |-> "none"]

\* new TemporalEvolution(planetSettings): baseSettings = { ...planetSettings }
Construct(planetSettings) ==
    LET target == SpreadTarget("planetSettings", "baseSettings")
        h0 == [s \in Slots |-> IF s = "planetSettings" THEN planetSettings ELSE None]
    IN  [h0 EXCEPT ![target] = planetSettings]

\* Where the engine's baseSettings lives after construction.
BaseRef == SpreadTarget("planetSettings", "baseSettings")

UpdateTime(deltaTime, ts) ==
    /\ AdvancedClock(currentTime, deltaTime, ts) <= MaxClock
    /\ currentTime' = AdvancedClock(currentTime, deltaTime, ts)
    /\ lastOp' = OpOf("updateTime", deltaTime, 0, ts)
    /\ UNCHANGED <<heap, snapshots, lastEvolved, temporalPaused>>

FastForward(duration) ==
    /\ FastForwarded(currentTime, duration) <= MaxClock
    /\ currentTime' = FastForwarded(currentTime, duration)
    /\ lastOp' = OpOf("fastForward", 0, duration, None)
    /\ UNCHANGED <<heap, snapshots, lastEvolved, temporalPaused>>

Rewind(duration) ==
    /\ currentTime' = Rewound(currentTime, duration)
    /\ lastOp' = OpOf("rewind", 0, duration, None)
    /\ UNCHANGED <<heap, snapshots, lastEvolved, temporalPaused>>

ResetTime ==
    /\ currentTime' = 0
    /\ snapshots' = ClearedHistory(snapshots)
    /\ lastOp' = OpOf("resetTime", 0, 0, None)
    /\ UNCHANGED <<heap, lastEvolved, temporalPaused>>

Shifted_dropsNewest(history) == SubSeq(history, 1, Len(history) - 1)

\* this.snapshots.shift()
Shifted(history) == Tail(history)

\* this.snapshots.push(snapshot); if (this.snapshots.length > 100) this.snapshots.shift()
Saved(history, snapshot) ==
    LET pushed == Append(history, snapshot)
    IN  IF Len(pushed) > 100 THEN Shifted(pushed) ELSE pushed

SaveSnapshot ==
    /\ Len(snapshots) < MaxSnaps
    /\ snapshots' = Saved(snapshots, SnapshotOf(heap[BaseRef], currentTime))
    /\ lastOp' = OpOf("saveSnapshot", 0, 0, None)
    /\ UNCHANGED <<heap, currentTime, lastEvolved, temporalPaused>>

\* The caller toggles the run state (settings.temporalPaused).
SetTemporalPaused(paused) ==
    /\ temporalPaused' = paused
    /\ lastOp' = OpOf("setTemporalPaused", 0, 0, None)
    /\ UNCHANGED <<heap, currentTime, snapshots, lastEvolved>>

GetTemporallyEvolvedSettings(ts) ==
    LET base   == heap[BaseRef]
        target == SpreadTarget(BaseRef, "evolved")
    IN  /\ heap' = [heap EXCEPT
                      ![target] = Evolved(base, ts, NoiseSamples(base.seed, currentTime, ts))]
        /\ lastEvolved' = [ts |-> ts, time |-> currentTime, result |-> heap'[target]]
        /\ lastOp' = OpOf("getTemporallyEvolvedSettings", 0, 0, ts)
        /\ UNCHANGED <<currentTime, snapshots, temporalPaused>>

---------------------------------------------------------------------------
(* Inputs of the engine's specification *)

\* Planet settings the engine is constructed with.
PlanetChoices ==
    {defaultSettings,
     PlanetSettingsOf(7, 0, 1000, 1000, 0, 1000, 0)}

\* Temporal settings the caller passes to updateTime: run state and speed vary.
ClockSettings ==
    {TemporalSettingsOf(0, 0, 0, 0, speed, paused, 500, 0, 0) :
        speed \in {1, 2}, paused \in BOOLEAN}

\* Temporal settings the caller passes to getTemporallyEvolvedSettings.
KnobSettings ==
    {TemporalSettingsOf(0, 0, 0, 0, 10, TRUE, 500, 0, 0),
     TemporalSettingsOf(1000, 1000, 1000, 500, 10, FALSE, 1000, 100, 1000)}

DeltaTimes == {0, 1, 2}
Durations  == {0, 1, 3}

\* The latitudes and longitudes of the lattice: -90..90 and -180..180 in 10-degree steps.
WindLatitudes  == {-90 + 10 * k : k \in 0..18}
WindLongitudes == {-180 + 10 * k : k \in 0..36}

\* globalWindPattern.length: one vector per (lat, lon), latitude-major.
WindPatternLength == Cardinality(WindLatitudes) * Cardinality(WindLongitudes)

\* The rows and columns of temperatureMap: lat 0..175 and lon 0..355 in 5-degree steps.
TemperatureLatitudes  == {lat \in 0..179 : lat % 5 = 0}
TemperatureLongitudes == {lon \in 0..359 : lon % 5 = 0}

\* The lattices as the constructor leaves them: the length of globalWindPattern,
\* the rows and columns of temperatureMap, and how often each was generated.
\* Their cells are functions of the seed (WindVector, TemperatureCell).
BuiltLattices ==
    [globalWindPattern |-> [length |-> WindPatternLength, generated |-> 1],
     temperatureMap    |-> [rows |-> Cardinality(TemperatureLatitudes),
                            columns |-> Cardinality(TemperatureLongitudes),
                            generated |-> 1]]

WeatherIdle ==
    /\ stormSystems = << >>
    /\ weatherTime = 0
    /\ nextId = 0
    /\ removed = {}
    /\ lastUpdate = [op |-> "none"]
    /\ lattices = BuiltLattices

QueryIdle == lastQuery = NoOp

\* The parts of the page the engine's own specifications leave alone.
HistoryIdle == saveLog = << >>

RendererIdle ==
    /\ settings = None
    /\ mountSettings = None
    /\ textures = None
    /\ engines = None

RecorderIdle ==
    /\ recorder = None
    /\ timeouts = {}
    /\ now = 0

CameraIdle ==
    /\ intervals = << >>
    /\ autoOrbitInterval = 0

OtherIdle ==
    /\ HistoryIdle
    /\ RendererIdle
    /\ RecorderIdle
    /\ CameraIdle

EvolveIdle ==
    /\ evBase = None
    /\ evTs = None
    /\ evOut = None

TemporalIdle ==
    /\ heap = Construct(defaultSettings)
    /\ currentTime = 0
    /\ snapshots = << >>
    /\ lastEvolved = None
    /\ lastOp = NoOp
    /\ temporalPaused = TRUE

Init ==
    /\ \E p \in PlanetChoices : heap = Construct(p)
    /\ currentTime = 0
    /\ snapshots = << >>
    /\ lastEvolved = None
    /\ lastOp = NoOp
    /\ temporalPaused = TRUE
    /\ EvolveIdle
    /\ WeatherIdle
    /\ QueryIdle
    /\ OtherIdle

Next ==
    \/ \E dt \in DeltaTimes, ts \in {t \in ClockSettings : t.isPaused = temporalPaused} :
          UpdateTime(dt, ts) /\ UNCHANGED <<evolveVars, otherVars, weatherVars, queryVars>>
    \/ \E b \in BOOLEAN : SetTemporalPaused(b) /\ UNCHANGED <<evolveVars, otherVars, weatherVars, queryVars>>
    \/ \E d \in Durations : FastForward(d) /\ UNCHANGED <<evolveVars, otherVars, weatherVars, queryVars>>
    \/ \E d \in Durations : Rewind(d) /\ UNCHANGED <<evolveVars, otherVars, weatherVars, queryVars>>
    \/ ResetTime /\ UNCHANGED <<evolveVars, otherVars, weatherVars, queryVars>>
    \/ SaveSnapshot /\ UNCHANGED <<evolveVars, otherVars, weatherVars, queryVars>>
    \/ \E ts \in KnobSettings :
          GetTemporallyEvolvedSettings(ts) /\ UNCHANGED <<evolveVars, otherVars, weatherVars, queryVars>>

Spec == Init /\ [][Next]_vars

---------------------------------------------------------------------------
(* WeatherSystem: the wind lattice *)

RECURSIVE SqrtBetween(_, _, _)
SqrtBetween(n, lo, hi) ==
    IF lo >= hi THEN lo
    ELSE LET mid == (lo + hi + 1) \div 2
         IN  IF mid * mid <= n THEN SqrtBetween(n, mid, hi) ELSE SqrtBetween(n, lo, mid - 1)

\* The integer part of Math.sqrt(n), for n below 4,000,000.
Sqrt(n) == SqrtBetween(n, 0, 2000)

\* globalWindPattern[index] for the generator seeded `seed`, normalised, in thousandths.
WindVector(seed, index) ==
    LET lat    == -90 + 10 * (index \div Cardinality(WindLongitudes))
        lon    == -180 + 10 * (index % Cardinality(WindLongitudes))
        latRad == (lat * 17453) \div 1000
        coriolisStrength == (Sin(latRad) * 8) \div 10
        tradeWinds       == (Sin(3 * latRad + 1571) * 6) \div 10
        vx  == tradeWinds + (Noise(seed, lon * 10000, lat * 10, 0) * 4) \div 10
        vy  == coriolisStrength
        vz  == (Noise(seed, lon * 20000, lat * 20, 1000) * 3) \div 10
        len == Sqrt(vx * vx + vy * vy + vz * vz)
        d   == IF len = 0 THEN 1 ELSE len
    IN  [x |-> (vx * Milli) \div d, y |-> (vy * Milli) \div d, z |-> (vz * Milli) \div d]

\* Math.floor((x + 1) * 18) + Math.floor((y + 1) * 18) * 36
WindIndex(x, y) == ((x + Milli) * 18) \div Milli + (((y + Milli) * 18) \div Milli) * 36

---------------------------------------------------------------------------
(* WeatherSystem: storms *)

\* The seed the weather system is constructed with; its generator adds 70000.
WeatherSeed == defaultSettings.seed

\* The lattice generateGlobalWindPattern builds in the constructor.
globalWindPattern ==
    [index \in 0..(WindPatternLength - 1) |-> WindVector(WeatherSeed + 70000, index)]

\* The clock of the weather system may advance to at most MaxWeatherTime.
MaxWeatherTime == 15000

\* At most MaxSpawns storms are spawned in a behaviour.
MaxSpawns == 1

StormTypes == {"thunderstorm", "cyclone", "dust", "aurora"}

\* What Math.random() contributes to a spawn: the type, the position on the
\* x and y axes, and the draws behind intensity (0.5 + r * 0.5), lifespan
\* (50 + r * 200), radius (0.1 + r * 0.3) and the aurora's side.
DrawOf(type, x, y, intensity) ==
    [type |-> type, x |-> x, y |-> y, z |-> 1600, radius |-> 100,
     intensity |-> intensity, lifespan |-> 5000, side |-> 1200]

\* One draw or two per type; y = 0.9 puts the storm outside the wind lattice.
SpawnDraws ==
    {DrawOf("thunderstorm", 0, 0, 900), DrawOf("thunderstorm", 0, 900, 500),
     DrawOf("cyclone", 900, 0, 900), DrawOf("dust", 0, 0, 500),
     DrawOf("aurora", 0, 900, 500), DrawOf("cyclone", 900, 900, Milli)}

\* spawnRandomStorm: the storm built from the draws, adjusted for its type.
\* `target` keeps the intensity at spawn and `id` names the object.
SpawnedStorm(draw, id) ==
    LET storm == [id |-> id, x |-> draw.x, y |-> draw.y, z |-> draw.z,
                  radius |-> draw.radius, intensity |-> draw.intensity,
                  rotation |-> 0, type |-> draw.type,
                  lifespan |-> draw.lifespan, age |-> 0]
        adjusted ==
            CASE draw.type = "cyclone" ->
                   [storm EXCEPT !.radius = (@ * 15) \div 10, !.lifespan = @ * 2,
                                 !.intensity = (@ * 12) \div 10]
              [] draw.type = "dust" ->
                   [storm EXCEPT !.radius = @ * 2, !.intensity = (@ * 8) \div 10,
                                 !.z = 1550]
              [] draw.type = "aurora" ->
                   [storm EXCEPT !.radius = @ \div 2, !.z = 2000, !.x = draw.side]
              [] OTHER -> storm
    IN  [f \in DOMAIN adjusted \cup {"target"} |->
            IF f = "target" THEN adjusted.intensity ELSE adjusted[f]]

Lifecycle_amplifies(storm) == storm.intensity + 100

\* The storm lifecycle: the intensity after aging, from the intensity before.
\*   age < lifespan * 0.2:  intensity = (age / (lifespan * 0.2)) * intensity
\*   age > lifespan * 0.8:  intensity *= 1 - (age - lifespan * 0.8) / (lifespan * 0.2)
Lifecycle(storm) ==
    LET growth == storm.lifespan \div 5
    IN  IF storm.age < growth
        THEN (storm.age * storm.intensity) \div growth
        ELSE IF storm.age > 4 * growth
             THEN (storm.intensity * (growth - (storm.age - 4 * growth))) \div growth
             ELSE storm.intensity

\* The wind drift of one update: position.add(wind * deltaTime * 0.01), when
\* the computed index is inside the lattice.
Drifted(storm, deltaTime) ==
    LET windIndex == WindIndex(storm.x, storm.y)
    IN  IF windIndex >= 0 /\ windIndex < WindPatternLength
        THEN LET wind == globalWindPattern[windIndex]
             IN  [storm EXCEPT !.x = @ + (wind.x * deltaTime) \div Milli,
                               !.y = @ + (wind.y * deltaTime) \div Milli,
                               !.z = @ + (wind.z * deltaTime) \div Milli]
        ELSE storm

\* The body of the filter callback before its return: age, rotate, drift,
\* then apply the lifecycle to the aged storm.
Aged(storm, deltaTime, timeSpeed) ==
    LET older   == [storm EXCEPT !.age = @ + deltaTime * timeSpeed,
                                 !.rotation = @ + (deltaTime * timeSpeed * storm.intensity)
                                                     \div Milli]
        drifted == Drifted(older, deltaTime)
    IN  [drifted EXCEPT !.intensity = Lifecycle(drifted)]

KeepStorm_always(storm) == TRUE

KeepStorm_atFloor(storm) == storm.age < storm.lifespan /\ storm.intensity >= 100

\* return storm.age < storm.lifespan && storm.intensity > 0.1
KeepStorm(storm) == storm.age < storm.lifespan /\ storm.intensity > 100

ActiveIds == {stormSystems[i].id : i \in DOMAIN stormSystems}

\* What lastUpdate records: the call and the storms it found.
WeatherOpOf(name, deltaTime, timeSpeed, spawned) ==
    [op |-> name, deltaTime |-> deltaTime, timeSpeed |-> timeSpeed,
     spawned |-> spawned, before |-> ActiveIds]

Update_spawnsBeforeAging(deltaTime, timeSpeed, draw) ==
    LET step  == deltaTime * timeSpeed
        fresh == IF draw = None THEN << >>
                 ELSE << Aged(SpawnedStorm(draw, nextId + 1), deltaTime, timeSpeed) >>
    IN  /\ weatherTime + step <= MaxWeatherTime
        /\ draw # None =>
              /\ nextId < MaxSpawns
              /\ weatherTime + step + 2 * draw.lifespan + 2500 <= MaxWeatherTime
        /\ weatherTime' = weatherTime + step
        /\ nextId' = nextId + Len(fresh)
        /\ lastUpdate' = WeatherOpOf("update", deltaTime, timeSpeed, draw # None)
        /\ UNCHANGED lattices
        /\ \E aged \in {SelectSeq(
                  [i \in DOMAIN stormSystems |-> Aged(stormSystems[i], deltaTime, timeSpeed)],
                  LAMBDA storm : TRUE)} :
              /\ stormSystems' = SelectSeq(aged, KeepStorm) \o fresh
              /\ removed' = {aged[i] : i \in {j \in DOMAIN aged : ~KeepStorm(aged[j])}}

\* update(deltaTime, timeSpeed); `draw` is None when Math.random() >= 0.02.
\* A storm is spawned only while its whole lifespan fits below the clock bound.
Update(deltaTime, timeSpeed, draw) ==
    LET step  == deltaTime * timeSpeed
        fresh == IF draw = None THEN << >> ELSE << SpawnedStorm(draw, nextId + 1) >>
    IN  /\ weatherTime + step <= MaxWeatherTime
        /\ draw # None =>
              /\ nextId < MaxSpawns
              /\ weatherTime + step + 2 * draw.lifespan + 2500 <= MaxWeatherTime
        /\ weatherTime' = weatherTime + step
        /\ nextId' = nextId + Len(fresh)
        /\ lastUpdate' = WeatherOpOf("update", deltaTime, timeSpeed, draw # None)
        /\ UNCHANGED lattices
        \* the forEach pass over the storms, then the filter and the spawn
        /\ \E aged \in {SelectSeq(
                  [i \in DOMAIN stormSystems |-> Aged(stormSystems[i], deltaTime, timeSpeed)],
                  LAMBDA storm : TRUE)} :
              /\ stormSystems' = SelectSeq(aged, KeepStorm) \o fresh
              /\ removed' = {aged[i] : i \in {j \in DOMAIN aged : ~KeepStorm(aged[j])}}

Reset_keepsStorms ==
    /\ weatherTime' = 0
    /\ removed' = {}
    /\ lastUpdate' = WeatherOpOf("reset", 0, 0, FALSE)
    /\ UNCHANGED <<stormSystems, nextId, lattices>>

\* reset(): the storms and the clock; the lattices stay.
Reset ==
    /\ stormSystems' = << >>
    /\ weatherTime' = 0
    /\ removed' = {}
    /\ lastUpdate' = WeatherOpOf("reset", 0, 0, FALSE)
    /\ UNCHANGED <<nextId, lattices>>

\* The (deltaTime, timeSpeed) pairs of update: a frame of no duration, and
\* frames of 5 s at speed 1x and of 2.5 s at speed 10x.
UpdateInputs == {<<0, 10>>, <<50, 10>>, <<25, 100>>}

UpdateStep ==
    \E in \in UpdateInputs, draw \in {None} \cup SpawnDraws : Update(in[1], in[2], draw)

\* An update that lets time pass: deltaTime * timeSpeed > 0.
UpdateAdvancing ==
    \E in \in {i \in UpdateInputs : i[1] * i[2] > 0}, draw \in {None} \cup SpawnDraws :
        Update(in[1], in[2], draw)

InitWeather ==
    /\ WeatherIdle
    /\ TemporalIdle
    /\ EvolveIdle
    /\ QueryIdle
    /\ OtherIdle

NextWeather ==
    \/ UpdateStep /\ UNCHANGED <<temporalVars, evolveVars, otherVars, queryVars>>
    \/ Reset /\ UNCHANGED <<temporalVars, evolveVars, otherVars, queryVars>>

\* The animation loop keeps calling update while the simulation runs.
SpecWeather ==
    /\ InitWeather
    /\ [][NextWeather]_vars
    /\ WF_vars(UpdateAdvancing /\ UNCHANGED <<temporalVars, evolveVars, otherVars, queryVars>>)

---------------------------------------------------------------------------
(* WeatherSystem: the temperature map and the read-only calls *)

\* A JavaScript number that may be NaN: Math.asin(y) for |y| > 1 and every
\* index computed from it.
Number(v) == [number |-> TRUE, value |-> v]
NaN == [number |-> FALSE, value |-> 0]

\* What reading a cell outside the lattice yields: temperatureMap[r][72] is
\* undefined and temperatureMap[36][c] throws a TypeError; neither is a number.
OutsideLattice == [number |-> FALSE, value |-> 0 - 1]

\* Math.sin at each whole degree of -90 .. 90, in thousandths.
SinOfDegrees == [d \in -90..90 |-> Sin((d * 17453) \div 1000)]

\* The largest whole degree of -90 .. 90 whose sine is at most y, for each y
\* of [-1, 1] in thousandths.
AsinOfThousandths ==
    [y \in (0 - Milli)..Milli |-> Cardinality({d \in -90..90 : SinOfDegrees[d] <= y}) - 91]

\* Math.asin(y) in whole degrees for y in thousandths; NaN outside [-1, 1].
AsinDegrees(y) ==
    IF y < 0 - Milli \/ y > Milli THEN NaN ELSE Number(AsinOfThousandths[y])

\* The length of the vector (dx, dy, dz), each in thousandths.
Length(dx, dy, dz) == SqrtBetween(dx * dx + dy * dy + dz * dz, 0, 10000)

\* Math.atan2(z, x) in whole degrees, in -180 .. 180; atan2(0, x) is 180 for x < 0.
Atan2Degrees(z, x) ==
    IF z = 0 /\ x = 0 THEN 0
    ELSE LET len   == Max(1, Length(x, 0, z))
             az    == IF z < 0 THEN 0 - z ELSE z
             acute == AsinDegrees(Min(Milli, (az * Milli) \div len)).value
             upper == IF x >= 0 THEN acute ELSE 180 - acute
         IN  IF z < 0 THEN 0 - upper ELSE upper

\* temperatureMap[latIndex][lonIndex] as generateTemperatureMap fills it:
\* clamp(cos(latNorm * PI / 2) + noise(lon * 0.02, lat * 0.02, 2) * 0.3).
TemperatureCell(latIndex, lonIndex) ==
    LET lat      == 5 * latIndex
        lon      == 5 * lonIndex
        baseTemp == Sin(((lat - 90) * 17453) \div 1000 + 1571)
        terrainVariation == (Noise(WeatherSeed + 70000, lon * 20000, lat * 20, 2000) * 3) \div 10
    IN  Clamp01(baseTemp + terrainVariation)

\* A read of temperatureMap[latIndex][lonIndex], inside the lattice or not.
TemperatureRead(latIndex, lonIndex) ==
    IF /\ latIndex \in 0..(lattices.temperatureMap.rows - 1)
       /\ lonIndex \in 0..(lattices.temperatureMap.columns - 1)
    THEN Number(TemperatureCell(latIndex, lonIndex))
    ELSE OutsideLattice

\* Math.floor(lat / 5) and Math.floor(lon / 5) of a position.
LatIndex(position) ==
    LET asin == AsinDegrees(position.y)
    IN  IF asin.number THEN Number((asin.value + 90) \div 5) ELSE NaN

LonIndex(position) == Number((Atan2Degrees(position.z, position.x) + 180) \div 5)

IndexInside_inclusive(index, length) ==
    index.number /\ index.value >= 0 /\ index.value <= length

\* index >= 0 && index < length; every comparison with NaN is false.
IndexInside(index, length) ==
    index.number /\ index.value >= 0 /\ index.value < length

\* getTemperatureAt(position)
GetTemperatureAt(position) ==
    IF /\ IndexInside(LatIndex(position), lattices.temperatureMap.rows)
       /\ IndexInside(LonIndex(position), lattices.temperatureMap.columns)
    THEN TemperatureRead(LatIndex(position).value, LonIndex(position).value)
    ELSE Number(500)

\* position.distanceTo(storm.position)
DistanceTo(position, storm) ==
    Length(position.x - storm.x, position.y - storm.y, position.z - storm.z)

\* (1 - distance / storm.radius) * storm.intensity for a storm within its
\* radius of the position, 0 for a storm further away.
Influence(position, storm) ==
    LET distance == DistanceTo(position, storm)
    IN  IF distance < storm.radius
        THEN ((((storm.radius - distance) * Milli) \div storm.radius) * storm.intensity) \div Milli
        ELSE 0

RECURSIVE SumOver(_, _)
SumOver(f, indices) ==
    IF indices = {} THEN 0
    ELSE LET i == CHOOSE j \in indices : TRUE
         IN  f[i] + SumOver(f, indices \ {i})

StormInfluence_sum(position, storms) ==
    SumOver([i \in DOMAIN storms |-> Influence(position, storms[i])], DOMAIN storms)

\* stormInfluence after the forEach: Math.max over the storms, starting at 0.
StormInfluence(position, storms) ==
    LET influences == {Influence(position, storms[i]) : i \in DOMAIN storms} \cup {0}
    IN  CHOOSE m \in influences : \A other \in influences : other <= m

\* The three noise samples of getCurrentWeatherPattern at a position and clock.
PatternSamples(position, time) ==
    [cloud |-> Noise(WeatherSeed + 70000, (position.x * 3 + time \div 10) * 1000,
                     position.y * 3 + time \div 10, position.z * 3),
     storm |-> Noise(WeatherSeed + 70000, (position.x * 8 + time \div 5) * 1000,
                     position.y * 8 + time \div 5, position.z * 8 + 1000),
     wind  |-> Noise(WeatherSeed + 70000, (position.x * 5 + (time * 15) \div 100) * 1000,
                     position.y * 5 + (time * 15) \div 100, position.z * 5 + 2000)]

\* The WeatherPattern getCurrentWeatherPattern returns from its samples.
WeatherPatternOf(position, storms, n) ==
    LET stormInfluence == StormInfluence(position, storms)
    IN  [cloudDensity   |-> Clamp01((n.cloud + Milli) \div 2 + (stormInfluence * 3) \div 10),
         stormIntensity |-> Clamp01((n.storm + Milli) \div 2 + stormInfluence),
         windSpeed      |-> Clamp01((n.wind + Milli) \div 2 + (stormInfluence * 4) \div 10),
         precipitation  |-> Clamp01((stormInfluence * 8) \div 10 + (n.cloud + Milli) \div 4),
         temperature    |-> GetTemperatureAt(position),
         pressure       |-> 500 + (n.cloud + n.storm) \div 4 + (stormInfluence * 2) \div 10]

\* What lastQuery records of a read-only call.
QueryOf(name, arguments, result) ==
    [op |-> name, arguments |-> arguments, result |-> result]

\* getCurrentWeatherPattern(position)
GetCurrentWeatherPattern(position) ==
    /\ lastQuery' = QueryOf("getCurrentWeatherPattern", position,
                            WeatherPatternOf(position, stormSystems,
                                             PatternSamples(position, weatherTime)))
    /\ UNCHANGED weatherVars

\* getActiveStorms(): a copy of the array.
GetActiveStorms ==
    /\ lastQuery' = QueryOf("getActiveStorms", << >>, stormSystems)
    /\ UNCHANGED weatherVars

\* A sample point of getWeatherStats: (rx, ry, 1.6) normalised and scaled to 1.6.
StatsPoint(rx, ry) ==
    LET len == Max(1, Length(rx, ry, 1600))
    IN  [x |-> (rx * 1600) \div len, y |-> (ry * 1600) \div len, z |-> (1600 * 1600) \div len]

\* getWeatherStats() for the sample points drawn: the storm count, the two
\* averages and the temperature range over the samples.
GetWeatherStats(points) ==
    \E weather \in {SelectSeq([i \in DOMAIN points |->
                       WeatherPatternOf(points[i], stormSystems,
                                        PatternSamples(points[i], weatherTime))],
                                LAMBDA pattern : TRUE)} :
    \E temps \in {{weather[i].temperature.value : i \in DOMAIN points}} :
        /\ lastQuery' = QueryOf("getWeatherStats", points,
              [activeStorms      |-> Len(stormSystems),
               averageCloudCover |-> SumOver([i \in DOMAIN points |-> weather[i].cloudDensity],
                                             DOMAIN points) \div Len(points),
               globalWindSpeed   |-> SumOver([i \in DOMAIN points |-> weather[i].windSpeed],
                                             DOMAIN points) \div Len(points),
               temperatureRange  |->
                   [min |-> Min(Milli, CHOOSE t \in temps : \A u \in temps : t <= u),
                    max |-> Max(0, CHOOSE t \in temps : \A u \in temps : t >= u)]])
        /\ UNCHANGED weatherVars

PositionOf(x, y, z) == [x |-> x, y |-> y, z |-> z]

\* Positions asked about: at and near the spawn point of a storm, on the unit
\* sphere at the poles (latitude 0 and 180) and at longitude 360, and off the
\* sphere (|y| > 1).
QueryPositions ==
    {PositionOf(0, 0, 1600), PositionOf(50, 0, 1600), PositionOf(0, 1000, 0),
     PositionOf(0, -1000, 0), PositionOf(-1000, 0, 0), PositionOf(0, 1500, 0)}

\* The positions asked about between updates: at and near a storm's spawn point.
NearStormPositions == {PositionOf(0, 0, 1600), PositionOf(50, 0, 1600)}

\* The sample points getWeatherStats draws (100 in the program).
StatsSamples ==
    {<<StatsPoint(0, 0), StatsPoint(1000, -1000)>>,
     <<StatsPoint(-1000, 1000), StatsPoint(0, 0), StatsPoint(500, 0)>>}

\* The storms spawned between the read-only calls: a thunderstorm at the first
\* two positions asked about, and a cyclone of the largest intensity.
QueryDraws == {DrawOf("thunderstorm", 0, 0, 900), DrawOf("cyclone", 900, 900, Milli)}

\* The weather system under updates, resets and its read-only calls.
NextQueries ==
    \/ /\ \E in \in UpdateInputs, draw \in {None} \cup QueryDraws : Update(in[1], in[2], draw)
       /\ lastQuery' = NoOp
       /\ UNCHANGED <<temporalVars, evolveVars, otherVars>>
    \/ Reset /\ lastQuery' = NoOp /\ UNCHANGED <<temporalVars, evolveVars, otherVars>>
    \/ \E position \in NearStormPositions :
          GetCurrentWeatherPattern(position) /\ UNCHANGED <<temporalVars, evolveVars, otherVars>>
    \/ GetActiveStorms /\ UNCHANGED <<temporalVars, evolveVars, otherVars>>
    \/ \E points \in StatsSamples :
          GetWeatherStats(points) /\ UNCHANGED <<temporalVars, evolveVars, otherVars>>

SpecQueries == InitWeather /\ [][NextQueries]_vars

---------------------------------------------------------------------------
(* The derivation as a pure function: every input drawn from its range *)

\* Base settings at the corners and the middle of their ranges.
EvolveBases ==
    {defaultSettings,
     PlanetSettingsOf(1, 0, 0, 0, 0, 0, 0),
     PlanetSettingsOf(2, Milli, Milli, Milli, Milli, Milli, Milli),
     PlanetSettingsOf(3, 0, Milli, 0, Milli, 0, Milli),
     PlanetSettingsOf(4, Milli, 0, Milli, 0, Milli, 0)}

\* The four gating knobs at 0, at the slider's smallest step and at 1.
Gates == {0, 10, Milli}

\* tectonicActivity, erosionLevel and oceanLevel (-0.5 .. 0.5) at their extremes.
Modulators ==
    {<<0, 0, -500>>, <<Milli, Milli, 500>>, <<500, 500, 0>>}

EvolveKnobs ==
    {TemporalSettingsOf(geo, wc, shift, m[2], 10, FALSE, m[1], m[3], atmo) :
        geo \in Gates, wc \in Gates, shift \in Gates, atmo \in Gates, m \in Modulators}

\* A noise or sine sample: any value of [-1, 1] (here its ends and its middle).
Samples == {-1000, 0, 1000}

SampleRecords ==
    [mountain : Samples, coast : Samples, ocean : Samples, climate : Samples,
     atmo : Samples, weather : Samples, sin : Samples]

\* One application of the derivation to the drawn base, knobs and samples.
EvolveOnce ==
    /\ evOut = None
    /\ \E ts \in EvolveKnobs, n \in SampleRecords :
          /\ evTs' = ts
          /\ evOut' = Evolved(evBase, ts, n)
    /\ UNCHANGED evBase

InitEvolve ==
    /\ evBase \in EvolveBases
    /\ evTs = None
    /\ evOut = None
    /\ TemporalIdle
    /\ WeatherIdle
    /\ QueryIdle
    /\ OtherIdle

NextEvolve == EvolveOnce /\ UNCHANGED <<temporalVars, weatherVars, queryVars, otherVars>>

SpecEvolve == InitEvolve /\ [][NextEvolve]_vars

---------------------------------------------------------------------------
(* getCurrentWeatherPattern as a pure function of position, storms and samples *)

\* Storm arrays the weather system reaches: none; one storm just spawned; a
\* cyclone that one update of 2.5 s at 10x carried past its growth phase, with
\* a thunderstorm spawned by that update at the same place; the same cyclone
\* with a far-away aurora.
PatternStorms ==
    {<< >>,
     << SpawnedStorm(DrawOf("thunderstorm", 0, 0, 900), 1) >>,
     << Aged(SpawnedStorm(DrawOf("cyclone", 0, 0, Milli), 1), 25, 100),
        SpawnedStorm(DrawOf("thunderstorm", 0, 0, 900), 2) >>,
     << Aged(SpawnedStorm(DrawOf("cyclone", 0, 0, Milli), 1), 25, 100),
        SpawnedStorm(DrawOf("aurora", 0, 900, 500), 2) >>}

\* The three noise samples, each at the ends and the middle of [-1, 1].
PatternSampleRecords == [cloud : Samples, storm : Samples, wind : Samples]

\* Positions asked about: QueryPositions, a point of the equator, one just
\* inside a storm's radius and the place of the aurora.
PatternPositions ==
    QueryPositions \cup
        {PositionOf(Milli, 0, 0), PositionOf(0, 0 - 1500, 0), PositionOf(0, 90, 1600),
         PositionOf(1200, 900, 2000), PositionOf(0, 0, 0)}

\* One application of getCurrentWeatherPattern with the samples drawn.
PatternOnce ==
    /\ \E position \in PatternPositions, n \in PatternSampleRecords :
          lastQuery' = QueryOf("getCurrentWeatherPattern",
                               [position |-> position, samples |-> n],
                               WeatherPatternOf(position, stormSystems, n))
    /\ UNCHANGED weatherVars

InitPattern ==
    /\ stormSystems \in PatternStorms
    /\ weatherTime = IF stormSystems = << >> THEN 0 ELSE stormSystems[1].age
    /\ nextId = Len(stormSystems)
    /\ removed = {}
    /\ lastUpdate = [op |-> "none"]
    /\ lattices = BuiltLattices
    /\ QueryIdle
    /\ OtherIdle
    /\ TemporalIdle
    /\ EvolveIdle

NextPattern == PatternOnce /\ UNCHANGED <<temporalVars, evolveVars, otherVars>>

SpecPattern == InitPattern /\ [][NextPattern]_vars

---------------------------------------------------------------------------
(* TemporalEvolution.getTimeDescription as a pure function of the clock *)

\* `${n}` for a number n given in tenths: "2" for 20, "0.2" for 2.
NumberString(tenths) ==
    IF tenths % 10 = 0
    THEN ToString(tenths \div 10)
    ELSE ToString(tenths \div 10) \o "." \o ToString(tenths % 10)

TimeDescriptionOf_yearsOnly(time) == NumberString(10 * time) \o " years"

\* getTimeDescription() for a clock of `time` whole years (the fraction of a
\* year is dropped by Math.floor in the first tier and by the divisions after).
TimeDescriptionOf(time) ==
    IF time < 100
    THEN NumberString(10 * time) \o " years"
    ELSE IF time < 100000
         THEN NumberString(10 * (time \div 1000)) \o "K years"
         ELSE IF time < 1000000
              THEN NumberString(time \div 100000) \o "M years"
              ELSE NumberString(time \div 100000000) \o "B years"

\* Clock values described: every value up to the first tier's end and beyond
\* it, and the values at and around the ends of the other tiers.
DescribedTimes ==
    (0..120) \cup {999, 1000, 1999, 99999, 100000, 199999, 250000, 999999,
                   1000000, 2500000, 99999999, 100000000, 250000000,
                   1000000000, 2000000000}

\* One call of getTimeDescription with the clock at `time`.
DescribeOnce ==
    /\ \E time \in DescribedTimes :
          lastQuery' = QueryOf("getTimeDescription", time, TimeDescriptionOf(time))
    /\ UNCHANGED <<temporalVars, evolveVars, otherVars, weatherVars>>

InitDescribe ==
    /\ TemporalIdle
    /\ EvolveIdle
    /\ WeatherIdle
    /\ QueryIdle
    /\ OtherIdle

NextDescribe == DescribeOnce

SpecDescribe == InitDescribe /\ [][NextDescribe]_vars

---------------------------------------------------------------------------
(* ColorPalettes (utils/ColorPalettes.ts).  Colour channels are integers   *)
(* 0..255; climate, height, seaLevel and factors are in thousandths.       *)

Rgb(r, g, b) == [r |-> r, g |-> g, b |-> b]

\* The eight anchor colours of a palette, lowest band first.
Anchors ==
    {"deepOcean", "shallowWater", "beach", "lowland", "highland", "mountain", "peak", "polar"}

\* ColorPalettes.palettes: Icy, Temperate, Arid, Verdant (palettes[0] is the
\* first element here); atmosphereColor is the 24-bit tint.
palettes ==
    << [deepOcean |-> Rgb(25, 25, 112), shallowWater |-> Rgb(65, 105, 225),
        beach |-> Rgb(176, 196, 222), lowland |-> Rgb(230, 230, 250),
        highland |-> Rgb(255, 250, 240), mountain |-> Rgb(248, 248, 255),
        peak |-> Rgb(255, 255, 255), polar |-> Rgb(255, 255, 255),
        atmosphereColor |-> 8900331],
       [deepOcean |-> Rgb(25, 25, 112), shallowWater |-> Rgb(65, 105, 225),
        beach |-> Rgb(238, 203, 173), lowland |-> Rgb(34, 139, 34),
        highland |-> Rgb(107, 142, 35), mountain |-> Rgb(160, 82, 45),
        peak |-> Rgb(139, 69, 19), polar |-> Rgb(255, 255, 255),
        atmosphereColor |-> 8900331],
       [deepOcean |-> Rgb(25, 25, 112), shallowWater |-> Rgb(65, 105, 225),
        beach |-> Rgb(244, 164, 96), lowland |-> Rgb(210, 180, 140),
        highland |-> Rgb(205, 133, 63), mountain |-> Rgb(160, 82, 45),
        peak |-> Rgb(139, 69, 19), polar |-> Rgb(255, 228, 181),
        atmosphereColor |-> 16753920],
       [deepOcean |-> Rgb(0, 100, 100), shallowWater |-> Rgb(0, 150, 150),
        beach |-> Rgb(238, 203, 173), lowland |-> Rgb(0, 100, 0),
        highland |-> Rgb(34, 139, 34), mountain |-> Rgb(107, 142, 35),
        peak |-> Rgb(85, 107, 47), polar |-> Rgb(144, 238, 144),
        atmosphereColor |-> 9498256] >>

\* What an array read outside its indices yields.
Undefined == [undefined |-> TRUE]

\* this.palettes[index]
PaletteAt(index) ==
    IF index \in 0..(Len(palettes) - 1) THEN palettes[index + 1] ELSE Undefined

\* A call that returned a value, and one that threw instead.
Returned(value) == [threw |-> FALSE, value |-> value]
Threw(error) == [threw |-> TRUE, value |-> error]

\* Math.round(color1.c + (color2.c - color1.c) * factor), channel by channel;
\* Math.round rounds a half upwards.
InterpolateColor(color1, color2, factor) ==
    [c \in {"r", "g", "b"} |->
        (color1[c] * Milli + (color2[c] - color1[c]) * factor + 500) \div Milli]

PalettePair_unclamped(index) == <<PaletteAt(index), PaletteAt(index + 1)>>

\* palette1 and palette2: the last palette twice from the last index on,
\* palettes[index] and palettes[index + 1] otherwise.
PalettePair(index) ==
    IF index >= Len(palettes) - 1
    THEN <<PaletteAt(Len(palettes) - 1), PaletteAt(Len(palettes) - 1)>>
    ELSE <<PaletteAt(index), PaletteAt(index + 1)>>

\* getPalette(climate): the interpolated palette, or the TypeError of reading
\* a colour of an undefined palette.
GetPalette(climate) ==
    LET scaledClimate == climate * (Len(palettes) - 1)
        index    == scaledClimate \div Milli
        fraction == scaledClimate - index * Milli
        pair     == PalettePair(index)
    IN  IF pair[1] = Undefined \/ pair[2] = Undefined
        THEN Threw("TypeError")
        ELSE Returned([f \in Anchors \cup {"atmosphereColor"} |->
                          IF f = "atmosphereColor"
                          THEN pair[1].atmosphereColor
                          ELSE InterpolateColor(pair[1][f], pair[2][f], fraction)])

DeepOcean_belowSeaLevelThird(height, seaLevel) == 10 * height < 3 * seaLevel

\* height < seaLevel * 0.7
DeepOcean(height, seaLevel) == 10 * height < 7 * seaLevel

Polar_fromNineTenths(height, seaLevel) == height >= 900

\* the final else: not height < seaLevel + 0.9
Polar(height, seaLevel) == ~(height < seaLevel + 900)

\* getColorForHeight(palette, height, seaLevel)
GetColorForHeight(palette, height, seaLevel) ==
    IF DeepOcean(height, seaLevel) THEN palette.deepOcean
    ELSE IF height < seaLevel
    THEN InterpolateColor(palette.deepOcean, palette.shallowWater,
                          ((10 * height - 7 * seaLevel) * Milli) \div (3 * seaLevel))
    ELSE IF height < seaLevel + 50
    THEN InterpolateColor(palette.shallowWater, palette.beach,
                          ((height - seaLevel) * Milli) \div 50)
    ELSE IF height < seaLevel + 300
    THEN InterpolateColor(palette.beach, palette.lowland,
                          ((height - seaLevel - 50) * Milli) \div 250)
    ELSE IF height < seaLevel + 500
    THEN InterpolateColor(palette.lowland, palette.highland,
                          ((height - seaLevel - 300) * Milli) \div 200)
    ELSE IF height < seaLevel + 700
    THEN InterpolateColor(palette.highland, palette.mountain,
                          ((height - seaLevel - 500) * Milli) \div 200)
    ELSE IF ~Polar(height, seaLevel)
    THEN InterpolateColor(palette.mountain, palette.peak,
                          ((height - seaLevel - 700) * Milli) \div 200)
    ELSE palette.polar

\* getPalette(climate).getColor(height, seaLevel)
GetColor(climate, height, seaLevel) ==
    LET palette == GetPalette(climate)
    IN  IF palette.threw THEN palette
        ELSE Returned(GetColorForHeight(palette.value, height, seaLevel))

\* Climates asked for: inside [0,1] at the palettes and between them, the two
\* ends, and values below 0 and above 1.
Climates == {0 - 500, 0 - 100, 0, 250, 500, 667, 999, Milli, 1001, 1500, 2000}

\* Heights at and around every band edge for seaLevel 0.5, and beyond 1.
Heights == {0, 300, 349, 350, 400, 499, 500, 549, 550, 700, 950, 1000, 1199, 1399, 1400, 1500}

SeaLevels == {300, 500}

\* One call of getPalette.
GetPaletteOnce ==
    /\ \E climate \in Climates :
          lastQuery' = QueryOf("getPalette", [climate |-> climate], GetPalette(climate))
    /\ UNCHANGED <<temporalVars, evolveVars, otherVars, weatherVars>>

\* One call of getColor on the palette getPalette returned.
GetColorOnce ==
    /\ \E climate \in Climates, height \in Heights, seaLevel \in SeaLevels :
          lastQuery' = QueryOf("getColor",
                               [climate |-> climate, height |-> height, seaLevel |-> seaLevel],
                               GetColor(climate, height, seaLevel))
    /\ UNCHANGED <<temporalVars, evolveVars, otherVars, weatherVars>>

InitPalette ==
    /\ TemporalIdle
    /\ EvolveIdle
    /\ WeatherIdle
    /\ QueryIdle
    /\ OtherIdle

NextPalette ==
    \/ GetPaletteOnce
    \/ GetColorOnce

SpecPalette == InitPalette /\ [][NextPalette]_vars

---------------------------------------------------------------------------
(* TemporalEvolution.getTemporalEffects *)

\* The temporal settings with the display switch set as the caller has it.
WithEffectsShown(ts, shown) == [ts EXCEPT !.showTemporalEffects = shown]

\* weatherNoise.noise(time * factor, channel, 0), factor in thousandths.
EffectNoise(seed, time, factor, channel) ==
    Noise(seed + 60000, time * factor * 10, channel * Milli, 0)

\* temporalSettings.geologicalTime > 0.3 && this.baseSettings.climate < 0.6
PolarIceCaps(ts, base) == ts.geologicalTime > 300 /\ base.climate < 600

LightningStorms_shownOnly(sample, ts) ==
    sample > 600 /\ ts.weatherCycle > 500 /\ ts.showTemporalEffects

\* noise(time * 0.05, 4, 0) > 0.6 && temporalSettings.weatherCycle > 0.5
LightningStorms(sample, ts) == sample > 600 /\ ts.weatherCycle > 500

\* The flags getTemporalEffects returns for the base settings and clock given.
TemporalEffectsOf(base, time, ts) ==
    [auroras         |-> EffectNoise(base.seed, time, 30, 1) > 700 /\ ts.showTemporalEffects,
     meteorShowers   |-> EffectNoise(base.seed, time, 20, 2) > 800 /\ ts.showTemporalEffects,
     solarFlares     |-> EffectNoise(base.seed, time, 10, 3) > 850 /\ ts.showTemporalEffects,
     lightningStorms |-> LightningStorms(EffectNoise(base.seed, time, 50, 4), ts),
     dustStorms      |-> EffectNoise(base.seed, time, 40, 5) > 700 /\ ts.weatherCycle > 300,
     polarIceCaps    |-> PolarIceCaps(ts, base)]

\* One call of getTemporalEffects; it reads the clock and the base settings.
GetTemporalEffects(ts) ==
    /\ lastQuery' = QueryOf("getTemporalEffects",
                            [ts |-> ts, time |-> currentTime, base |-> heap[BaseRef]],
                            TemporalEffectsOf(heap[BaseRef], currentTime, ts))
    /\ lastOp' = OpOf("getTemporalEffects", 0, 0, ts)
    /\ UNCHANGED <<heap, currentTime, snapshots, lastEvolved, temporalPaused>>

\* Engines with a base climate below, at and above 0.6.
EffectPlanets ==
    {defaultSettings,
     PlanetSettingsOf(7, 400, 500, 300, 600, 400, 600),
     PlanetSettingsOf(11, 400, 500, 300, 599, 400, 600),
     PlanetSettingsOf(3, 400, 500, 300, 900, 400, 600)}

\* Temporal settings at and around the thresholds 0.3 and 0.5, switch on and off.
EffectSettings ==
    {WithEffectsShown(TemporalSettingsOf(geo, wc, 1000, 0, 10, FALSE, 500, 0, 0), shown) :
        geo \in {0, 300, 301}, wc \in {300, 301, 500, 501, 1000}, shown \in BOOLEAN}

InitEffects ==
    /\ \E p \in EffectPlanets : heap = Construct(p)
    /\ currentTime = 0
    /\ snapshots = << >>
    /\ lastEvolved = None
    /\ lastOp = NoOp
    /\ temporalPaused = FALSE
    /\ EvolveIdle
    /\ WeatherIdle
    /\ QueryIdle
    /\ OtherIdle

NextEffects ==
    \/ \E d \in Durations :
          FastForward(d) /\ lastQuery' = NoOp /\ UNCHANGED <<evolveVars, otherVars, weatherVars>>
    \/ \E ts \in {t \in KnobSettings : t.climaticShift > 0} :
          /\ GetTemporallyEvolvedSettings(ts)
          /\ lastQuery' = NoOp
          /\ UNCHANGED <<evolveVars, otherVars, weatherVars>>
    \/ \E ts \in EffectSettings : GetTemporalEffects(ts) /\ UNCHANGED <<evolveVars, otherVars, weatherVars>>

SpecEffects == InitEffects /\ [][NextEffects]_vars

---------------------------------------------------------------------------
(* PlanetRenderer (components/PlanetRenderer.tsx): the page's settings, the *)
(* two engines the component holds in refs, its animation loop and its      *)
(* settings effect.                                                         *)

\* The page's settings: the planet's fields and the temporal controls the
\* renderer reads.  The remaining temporal controls stay at their defaults.
SettingsOf(planet, geologicalTime, timeSpeed, paused) ==
    [seed |-> planet.seed, landWaterRatio |-> planet.landWaterRatio,
     coastlineComplexity |-> planet.coastlineComplexity,
     mountainDensity |-> planet.mountainDensity, climate |-> planet.climate,
     atmosphere |-> planet.atmosphere, clouds |-> planet.clouds,
     geologicalTime |-> geologicalTime, weatherCycle |-> 0, climaticShift |-> 0,
     erosionLevel |-> 0, timeSpeed |-> timeSpeed, temporalPaused |-> paused,
     showTemporalEffects |-> TRUE, tectonicActivity |-> 500, oceanLevel |-> 0,
     atmosphericEvolution |-> 0]

\* The fields of a settings object that the engine and the textures read.
PlanetOf(s) ==
    PlanetSettingsOf(s.seed, s.landWaterRatio, s.coastlineComplexity, s.mountainDensity,
                     s.climate, s.atmosphere, s.clouds)

\* const temporalSettings: TemporalSettings = { geologicalTime: settings.geologicalTime, ... }
TemporalOf(s) ==
    TemporalSettingsOf(s.geologicalTime, s.weatherCycle, s.climaticShift, s.erosionLevel,
                       s.timeSpeed, s.temporalPaused, s.tectonicActivity, s.oceanLevel,
                       s.atmosphericEvolution)

\* Math.random() * 10000, as the page draws a seed.
Seeds == {42, 7}

\* useState(defaultSettings): the settings of the first render, paused.
FirstSettings == {SettingsOf([defaultSettings EXCEPT !.seed = seed], 0, 10, TRUE) : seed \in Seeds}

\* What a render passes to generatePlanetTexture and generateCloudTexture.
TexturesOf(effectiveSettings) == [planet |-> effectiveSettings, clouds |-> effectiveSettings]

\* The engines the refs point at: the settings and seed they were constructed with.
EnginesOf(s) == [temporalEvolution |-> PlanetOf(s), weatherSystem |-> s.seed]

RebuildEngines_never(old, new) == FALSE

\* if (temporalEvolutionRef.current && weatherSystemRef.current): both refs are
\* set from the mount on, so the engines are rebuilt in every run of the effect.
RebuildEngines(old, new) == TRUE

\* if (temporalEvolutionRef.current && settings.geologicalTime > 0)
UsesEvolved(s) == s.geologicalTime > 0

\* The settings given to updatePlanet: the evolved settings of the engine in
\* the ref when the effect runs, or the settings of this render.
EffectiveSettings(new) ==
    IF UsesEvolved(new)
    THEN LET base == heap[BaseRef]
         IN  Evolved(base, TemporalOf(new), NoiseSamples(base.seed, currentTime, TemporalOf(new)))
    ELSE PlanetOf(new)

\* What lastOp records for a step of the renderer.
RendererOpOf(name, deltaTime) ==
    [op |-> name, deltaTime |-> deltaTime,
     before |-> [time |-> currentTime, saved |-> Len(snapshots), settings |-> settings,
                 storms |-> Len(stormSystems), base |-> heap[BaseRef]]]

\* The effect on [settings]: the page has set `new`, the component rendered
\* with it, and the effect regenerates the textures and then rebuilds the engines.
SettingsEffect(new) ==
    /\ settings' = new
    /\ textures' = TexturesOf(EffectiveSettings(new))
    /\ lastOp' = RendererOpOf("settingsEffect", 0)
    /\ temporalPaused' = new.temporalPaused
    /\ IF RebuildEngines(settings, new)
       THEN /\ heap' = Construct(PlanetOf(new))
            /\ currentTime' = 0
            /\ snapshots' = << >>
            /\ lastEvolved' = None
            /\ stormSystems' = << >>
            /\ weatherTime' = 0
            /\ removed' = {}
            /\ lastUpdate' = [op |-> "none"]
            /\ engines' = EnginesOf(new)
       ELSE /\ heap' = IF UsesEvolved(new)
                       THEN [heap EXCEPT !["evolved"] = EffectiveSettings(new)]
                       ELSE heap
            /\ UNCHANGED <<currentTime, snapshots, lastEvolved, stormSystems, weatherTime,
                           removed, lastUpdate, engines>>
    /\ UNCHANGED <<nextId, lattices, mountSettings>>
    /\ UNCHANGED <<evolveVars, queryVars, historyVars, recorderVars, cameraVars>>

\* updateSetting(key, value): one field of the settings changes.
UpdateSetting ==
    \/ SettingsEffect([settings EXCEPT !.temporalPaused = ~@])
    \/ \E speed \in {1, 10} \ {settings.timeSpeed} :
          SettingsEffect([settings EXCEPT !.timeSpeed = speed])
    \/ \E geo \in {0, 500} \ {settings.geologicalTime} :
          SettingsEffect([settings EXCEPT !.geologicalTime = geo])
    \/ \E ratio \in {400, 800} \ {settings.landWaterRatio} :
          SettingsEffect([settings EXCEPT !.landWaterRatio = ratio])

\* generateNewPlanet: a new seed, everything else as it is.
GenerateNewPlanet ==
    \E seed \in Seeds \ {settings.seed} : SettingsEffect([settings EXCEPT !.seed = seed])

\* One animation frame.  `settings` in animate is the settings of the render
\* in which the mount effect ran (its dependency list is empty).
Animate(deltaTime, draw) ==
    IF ~mountSettings.temporalPaused
    THEN /\ UpdateTime(deltaTime, TemporalOf(mountSettings))
         /\ Update(deltaTime, mountSettings.timeSpeed, draw)
         /\ UNCHANGED <<settings, mountSettings, textures, engines>>
         /\ UNCHANGED <<evolveVars, queryVars, historyVars, recorderVars, cameraVars>>
    ELSE /\ lastOp' = RendererOpOf("animate", deltaTime)
         /\ UNCHANGED <<heap, currentTime, snapshots, lastEvolved, temporalPaused>>
         /\ UNCHANGED <<settings, mountSettings, textures, engines>>
         /\ UNCHANGED <<evolveVars, weatherVars, queryVars, historyVars, recorderVars, cameraVars>>

\* The clock jump of handleFastForward.  The handler adds 1,000,000 years; the
\* model's clock is bounded by MaxClock and the jump is 3 of its units.
FastForwardJump == 3

\* handleFastForward: fastForward on the engine in the ref.
HandleFastForward ==
    FastForward(FastForwardJump) /\ UNCHANGED <<evolveVars, weatherVars, queryVars, otherVars>>

\* handleResetTime: resetTime on the engine and reset on the weather system.
HandleResetTime ==
    ResetTime /\ Reset /\ UNCHANGED <<evolveVars, queryVars, otherVars>>

\* After the mount effect and the first run of the settings effect: engines
\* built from the first settings, textures generated from them.
InitRenderer ==
    /\ \E first \in FirstSettings :
          /\ settings = first
          /\ mountSettings = first
          /\ textures = TexturesOf(PlanetOf(first))
          /\ engines = EnginesOf(first)
          /\ heap = Construct(PlanetOf(first))
          /\ temporalPaused = first.temporalPaused
    /\ currentTime = 0
    /\ snapshots = << >>
    /\ lastEvolved = None
    /\ lastOp = NoOp
    /\ EvolveIdle
    /\ WeatherIdle
    /\ QueryIdle
    /\ HistoryIdle
    /\ RecorderIdle
    /\ CameraIdle

NextRenderer ==
    \/ UpdateSetting
    \/ GenerateNewPlanet
    \/ \E deltaTime \in DeltaTimes, draw \in {None} \cup QueryDraws : Animate(deltaTime, draw)
    \/ HandleFastForward
    \/ HandleResetTime

SpecRenderer == InitRenderer /\ [][NextRenderer]_vars

---------------------------------------------------------------------------
(* PlanetRenderer: the per-texel arithmetic of the two texture generators. *)
(* The noise samples are drawn from [-1, 1], the range of NoiseGenerator.  *)

\* height after the four octaves and the normalisation (height + 1) / 2.
\* The octave weights are 0.4, 0.25, 0.15 x mountainDensity, 0.1 x mountainDensity;
\* the sum is kept in millionths until the normalisation.
TexelHeight(n, mountainDensity) ==
    LET height == n[1] * 400 + n[2] * 250
                  + (n[3] * 150 * mountainDensity) \div Milli
                  + (n[4] * 100 * mountainDensity) \div Milli
    IN  (height + Milli * Milli) \div (2 * Milli)

\* cloudDensity = Math.max(0, (cloudDensity + 0.3) * 1.5) after the four
\* octaves of weights 0.5, 0.25, 0.125, 0.0625 (kept in ten-millionths).
CloudDensity(n) ==
    Max(0, ((n[1] * 5000 + n[2] * 2500 + n[3] * 1250 + n[4] * 625 + 3000000) * 15)
               \div 100000)

CloudAlpha_unclamped(cloudDensity, clouds) == (cloudDensity * 255 * clouds) \div Milli

\* alpha = Math.min(255, cloudDensity * 255 * planetSettings.clouds), in thousandths.
CloudAlpha(cloudDensity, clouds) == Min(255 * Milli, (cloudDensity * 255 * clouds) \div Milli)

\* Noise samples at the ends of the range, at 0 and inside it.
TexelSamples == {0 - Milli, 0 - 300, 0, 500, Milli}

\* Settings within their declared bounds [0, 1].
TexelRatios == {0, 500, Milli}

\* The texel of generatePlanetTexture for one draw of noise.
PlanetTexel ==
    /\ lastQuery = NoOp
    /\ \E n \in [1..4 -> TexelSamples], mountainDensity \in TexelRatios :
          lastQuery' = QueryOf("generatePlanetTexture",
                               [noise |-> n, mountainDensity |-> mountainDensity],
                               [height |-> TexelHeight(n, mountainDensity)])
    /\ UNCHANGED <<temporalVars, evolveVars, otherVars, weatherVars>>

\* The texel of generateCloudTexture for one draw of noise.
CloudTexel ==
    /\ lastQuery = NoOp
    /\ \E n \in [1..4 -> TexelSamples], clouds \in TexelRatios :
          lastQuery' = QueryOf("generateCloudTexture",
                               [noise |-> n, clouds |-> clouds],
                               [cloudDensity |-> CloudDensity(n),
                                alpha |-> CloudAlpha(CloudDensity(n), clouds)])
    /\ UNCHANGED <<temporalVars, evolveVars, otherVars, weatherVars>>

InitTexel ==
    /\ TemporalIdle
    /\ EvolveIdle
    /\ WeatherIdle
    /\ QueryIdle
    /\ OtherIdle

NextTexel ==
    \/ PlanetTexel
    \/ CloudTexel

SpecTexel == InitTexel /\ [][NextTexel]_vars

---------------------------------------------------------------------------
(* VideoRecorder: startRecording, stopRecording and the auto-stop timers.  *)
(* Time is counted in seconds; a timer fires when its delay has elapsed.   *)

\* The event loop's time advances to at most MaxNow seconds.
MaxNow == 6

\* At most MaxRecordings recordings are started in a behaviour.
MaxRecordings == 2

\* new VideoRecorder(): mediaRecorder = null, isRecording = false, stream = null
NewRecorder == [isRecording |-> FALSE, mediaRecorder |-> None, stream |-> None]

\* The number of MediaRecorder objects created so far.
RecordingsStarted == IF recorder.mediaRecorder = None THEN 0 ELSE recorder.mediaRecorder.id

\* What lastOp records for a call or a timer callback of the recorder.
RecorderOpOf(name, timer, threw, stopped) ==
    [op |-> name, timer |-> timer, threw |-> threw, stopped |-> stopped,
     before |-> recorder]

\* if (!this.isRecording || !this.mediaRecorder) return;  (negated)
StopGuard == recorder.isRecording /\ recorder.mediaRecorder # None

\* The body of stopRecording.
Stopped ==
    IF StopGuard
    THEN [recorder EXCEPT !.isRecording = FALSE, !.stream = None]
    ELSE recorder

\* startRecording(canvas, { duration, ... })
StartRecording(duration) ==
    /\ RecordingsStarted < MaxRecordings
    /\ IF recorder.isRecording
       THEN \* throw new Error('Recording already in progress')
            /\ lastOp' = RecorderOpOf("startRecording", 0, TRUE, None)
            /\ UNCHANGED <<recorder, timeouts>>
       ELSE LET id == RecordingsStarted + 1
            IN  /\ recorder' = [isRecording |-> TRUE,
                                mediaRecorder |-> [id |-> id, startedAt |-> now,
                                                   duration |-> duration],
                                stream |-> id]
                /\ timeouts' = timeouts \cup {[due |-> now + duration, recording |-> id]}
                /\ lastOp' = RecorderOpOf("startRecording", 0, FALSE, None)
    /\ UNCHANGED now
    /\ UNCHANGED <<heap, currentTime, snapshots, lastEvolved, temporalPaused>>

\* stopRecording(), called by the page.
StopRecording ==
    /\ recorder' = Stopped
    /\ lastOp' = RecorderOpOf("stopRecording", 0, FALSE,
                              IF StopGuard THEN recorder.mediaRecorder ELSE None)
    /\ UNCHANGED <<timeouts, now>>
    /\ UNCHANGED <<heap, currentTime, snapshots, lastEvolved, temporalPaused>>

\* The callback of setTimeout(() => { this.stopRecording(); }, duration * 1000)
AutoStop(timeout) ==
    /\ timeout \in timeouts
    /\ timeout.due <= now
    /\ timeouts' = timeouts \ {timeout}
    /\ recorder' = Stopped
    /\ lastOp' = RecorderOpOf("autoStop", timeout.recording, FALSE,
                              IF StopGuard THEN recorder.mediaRecorder
                              ELSE None)
    /\ UNCHANGED now
    /\ UNCHANGED <<heap, currentTime, snapshots, lastEvolved, temporalPaused>>

\* A second passes; the timers that are due have run.
SecondPasses ==
    /\ now < MaxNow
    /\ \A timeout \in timeouts : timeout.due > now
    /\ now' = now + 1
    /\ lastOp' = RecorderOpOf("wait", 0, FALSE, None)
    /\ UNCHANGED <<recorder, timeouts>>
    /\ UNCHANGED <<heap, currentTime, snapshots, lastEvolved, temporalPaused>>

\* The durations asked for, in seconds.
RecordingDurations == {2, 3}

InitRecorder ==
    /\ TemporalIdle
    /\ EvolveIdle
    /\ WeatherIdle
    /\ QueryIdle
    /\ HistoryIdle
    /\ RendererIdle
    /\ CameraIdle
    /\ recorder = NewRecorder
    /\ timeouts = {}
    /\ now = 0

NextRecorder ==
    \/ \E duration \in RecordingDurations :
          /\ StartRecording(duration)
          /\ UNCHANGED <<evolveVars, weatherVars, queryVars, historyVars, rendererVars, cameraVars>>
    \/ /\ StopRecording
       /\ UNCHANGED <<evolveVars, weatherVars, queryVars, historyVars, rendererVars, cameraVars>>
    \/ \E timeout \in timeouts :
          /\ AutoStop(timeout)
          /\ UNCHANGED <<evolveVars, weatherVars, queryVars, historyVars, rendererVars, cameraVars>>
    \/ /\ SecondPasses
       /\ UNCHANGED <<evolveVars, weatherVars, queryVars, historyVars, rendererVars, cameraVars>>

SpecRecorder == InitRecorder /\ [][NextRecorder]_vars

---------------------------------------------------------------------------
(* CameraSystem: enableAutoOrbit, disableAutoOrbit and the interval timers *)

\* At most MaxIntervals timers are created in a behaviour.
MaxIntervals == 5

\* The timers setInterval has created, by handle (1, 2, ...): TRUE while
\* the timer is scheduled, FALSE once clearInterval has removed it.
Scheduled == {id \in DOMAIN intervals : intervals[id]}

\* What lastOp records for a call or a timer callback of the camera system.
CameraOpOf(name, interval) ==
    [op |-> name, interval |-> interval,
     before |-> [scheduled |-> Scheduled, autoOrbitInterval |-> autoOrbitInterval]]

\* enableAutoOrbit(speed): a new interval; its handle replaces the stored one.
EnableAutoOrbit ==
    /\ Len(intervals) < MaxIntervals
    /\ intervals' = Append(intervals, TRUE)
    /\ autoOrbitInterval' = Len(intervals) + 1
    /\ lastOp' = CameraOpOf("enableAutoOrbit", Len(intervals) + 1)
    /\ UNCHANGED <<heap, currentTime, snapshots, lastEvolved, temporalPaused>>

\* disableAutoOrbit(): clears the interval whose handle is stored, if any
\* (a handle is a positive number; undefined and null are falsy).
DisableAutoOrbit ==
    /\ IF autoOrbitInterval # 0
       THEN /\ intervals' = [intervals EXCEPT ![autoOrbitInterval] = FALSE]
            /\ autoOrbitInterval' = 0
       ELSE UNCHANGED <<intervals, autoOrbitInterval>>
    /\ lastOp' = CameraOpOf("disableAutoOrbit", 0)
    /\ UNCHANGED <<heap, currentTime, snapshots, lastEvolved, temporalPaused>>

\* The callback of an interval: this.orbitHorizontal(speed) rotates the camera.
OrbitTick(id) ==
    /\ id \in Scheduled
    /\ lastOp' = CameraOpOf("orbitHorizontal", id)
    /\ UNCHANGED <<intervals, autoOrbitInterval>>
    /\ UNCHANGED <<heap, currentTime, snapshots, lastEvolved, temporalPaused>>

InitCamera ==
    /\ TemporalIdle
    /\ EvolveIdle
    /\ WeatherIdle
    /\ QueryIdle
    /\ HistoryIdle
    /\ RendererIdle
    /\ RecorderIdle
    /\ intervals = << >>
    /\ autoOrbitInterval = 0

NextCamera ==
    \/ /\ EnableAutoOrbit
       /\ UNCHANGED <<evolveVars, weatherVars, queryVars, historyVars, rendererVars, recorderVars>>
    \/ /\ DisableAutoOrbit
       /\ UNCHANGED <<evolveVars, weatherVars, queryVars, historyVars, rendererVars, recorderVars>>
    \/ \E id \in Scheduled :
          /\ OrbitTick(id)
          /\ UNCHANGED <<evolveVars, weatherVars, queryVars, historyVars, rendererVars, recorderVars>>

SpecCamera == InitCamera /\ [][NextCamera]_vars

---------------------------------------------------------------------------
(* TemporalEvolution: the snapshot history at its limit of 100 entries *)

\* At most MaxSaves snapshots are saved between two resets.
MaxSaves == 102

\* The numbers of snapshots saved at which the clock is moved.
ClockPoints == {1, 100}

\* saveSnapshot(), with the clock value it stores noted in saveLog.
SaveSnapshotLogged ==
    /\ Len(saveLog) < MaxSaves
    /\ snapshots' = Saved(snapshots, SnapshotOf(heap[BaseRef], currentTime))
    /\ saveLog' = Append(saveLog, currentTime)
    /\ lastOp' = OpOf("saveSnapshot", 0, 0, None)
    /\ lastQuery' = NoOp
    /\ UNCHANGED <<heap, currentTime, lastEvolved, temporalPaused>>

\* getTemporalHistory(): return [...this.snapshots].  `array` names the array
\* object the caller holds, `value` is its content.
GetTemporalHistory ==
    /\ lastQuery' = QueryOf("getTemporalHistory", << >>,
                            [array |-> SpreadTarget("snapshots", "returned"),
                             value |-> snapshots])
    /\ lastOp' = OpOf("getTemporalHistory", 0, 0, None)
    /\ UNCHANGED <<heap, currentTime, snapshots, lastEvolved, temporalPaused, saveLog>>

\* The caller empties the array it was given (returned.length = 0): the write
\* goes to the array object the call returned.
ModifyReturned ==
    /\ lastQuery.op = "getTemporalHistory"
    /\ lastQuery.result.value # << >>
    /\ lastQuery' = [lastQuery EXCEPT !.result.value = << >>]
    /\ snapshots' = IF lastQuery.result.array = "snapshots" THEN << >> ELSE snapshots
    /\ lastOp' = OpOf("modifyReturned", 0, 0, None)
    /\ UNCHANGED <<heap, currentTime, lastEvolved, temporalPaused, saveLog>>

InitHistory ==
    /\ TemporalIdle
    /\ EvolveIdle
    /\ WeatherIdle
    /\ QueryIdle
    /\ OtherIdle

NextHistory ==
    \/ /\ SaveSnapshotLogged
       /\ UNCHANGED <<evolveVars, weatherVars, rendererVars, recorderVars, cameraVars>>
    \/ /\ Len(saveLog) \in ClockPoints
       /\ FastForward(FastForwardJump)
       /\ lastQuery' = NoOp
       /\ UNCHANGED <<evolveVars, weatherVars, otherVars>>
    \/ /\ Len(saveLog) \in ClockPoints
       /\ currentTime > 0
       /\ Rewind(1)
       /\ lastQuery' = NoOp
       /\ UNCHANGED <<evolveVars, weatherVars, otherVars>>
    \/ /\ ResetTime
       /\ saveLog' = << >>
       /\ lastQuery' = NoOp
       /\ UNCHANGED <<evolveVars, weatherVars, rendererVars, recorderVars, cameraVars>>
    \/ /\ GetTemporalHistory
       /\ UNCHANGED <<evolveVars, weatherVars, rendererVars, recorderVars, cameraVars>>
    \/ /\ ModifyReturned
       /\ UNCHANGED <<evolveVars, weatherVars, rendererVars, recorderVars, cameraVars>>

SpecHistory == InitHistory /\ [][NextHistory]_vars

---------------------------------------------------------------------------
(* Claims about the clock and the derivation of the engine *)

Called(name) == lastOp.op = name

\* C1: updateTime changes the clock only when isPaused is false, and then by
\* exactly deltaTime * timeSpeed; when isPaused is true it changes nothing.
C1_UpdateTimeGatedByPause ==
    [][lastOp'.op = "updateTime" =>
         /\ heap' = heap
         /\ snapshots' = snapshots
         /\ IF lastOp'.ts.isPaused
            THEN currentTime' = currentTime
            ELSE currentTime' = currentTime + lastOp'.deltaTime * lastOp'.ts.timeSpeed]_vars

\* A running update of 0.2 s at speed 0.2 has moved the clock by 0.04.
C1_Witness ==
    /\ Called("updateTime")
    /\ ~lastOp.ts.isPaused
    /\ lastOp.deltaTime = 2 /\ lastOp.ts.timeSpeed = 2
    /\ lastOp.before.time = 1
    /\ currentTime = 5

\* C2: fastForward adds its amount to the clock in both run states and changes
\* nothing else.
C2_FastForwardAddsInBothRunStates ==
    [][lastOp'.op = "fastForward" =>
         /\ currentTime' = currentTime + lastOp'.duration
         /\ heap' = heap
         /\ snapshots' = snapshots
         /\ temporalPaused' = temporalPaused]_vars

\* A fast-forward while paused has moved a clock that was not 0.
C2_Witness ==
    /\ Called("fastForward")
    /\ temporalPaused
    /\ lastOp.duration = 3
    /\ lastOp.before.time = 2
    /\ currentTime = 5

\* C3: after resetTime the clock is 0 and the history is empty, and the base
\* settings are the ones held before.
C3_ResetTimeClearsClockAndHistory ==
    [][lastOp'.op = "resetTime" =>
         /\ currentTime' = 0
         /\ snapshots' = << >>
         /\ heap' = heap]_vars

\* A reset that found a clock above 0 and a saved snapshot.
C3_Witness ==
    /\ Called("resetTime")
    /\ lastOp.before.time > 0
    /\ lastOp.before.saved > 0
    /\ currentTime = 0
    /\ snapshots = << >>

\* C4: updateTime and fastForward never lower the clock; a step that lowers
\* it is a resetTime or a rewind; the clock is never negative.
C4_ClockMonotoneAndNonNegative ==
    /\ [](currentTime >= 0)
    /\ [][lastOp'.op \in {"updateTime", "fastForward"} => currentTime' >= currentTime]_vars
    /\ [][currentTime' < currentTime => lastOp'.op \in {"resetTime", "rewind"}]_vars

\* A rewind by more than the clock holds has stopped at 0.
C4_Witness ==
    /\ Called("rewind")
    /\ lastOp.before.time > 0
    /\ lastOp.duration > lastOp.before.time
    /\ currentTime = 0

\* C5: getTemporallyEvolvedSettings changes neither the base settings, nor the
\* caller's settings object, nor the clock, nor the snapshots; a call with the
\* temporal settings and the clock of the call before it returns the same record.
C5_EvolvedIsRecomputation ==
    [][lastOp'.op = "getTemporallyEvolvedSettings" =>
         /\ heap'[BaseRef] = heap[BaseRef]
         /\ heap'["planetSettings"] = heap["planetSettings"]
         /\ currentTime' = currentTime
         /\ snapshots' = snapshots
         /\ (lastOp'.repeat => lastEvolved'.result = lastEvolved.result)]_vars

\* A second call with the same arguments and clock, whose result is not the base.
C5_Witness ==
    /\ Called("getTemporallyEvolvedSettings")
    /\ lastOp.repeat
    /\ lastOp.before.time > 0
    /\ lastEvolved.result # heap[BaseRef]
    /\ heap[BaseRef] = heap["planetSettings"]

\* C6: with geologicalTime = 0 the derivation returns mountainDensity,
\* coastlineComplexity and landWaterRatio equal to the base values, whatever
\* the samples and the other knobs are.
C6_NoGeologyKeepsTerrain ==
    (evOut # None /\ evTs.geologicalTime = 0) =>
        /\ evOut.mountainDensity = evBase.mountainDensity
        /\ evOut.coastlineComplexity = evBase.coastlineComplexity
        /\ evOut.landWaterRatio = evBase.landWaterRatio

\* geologicalTime = 0 with every other knob up, and the other branches have acted.
C6_Witness ==
    /\ evOut # None
    /\ evTs.geologicalTime = 0
    /\ evTs.tectonicActivity > 0 /\ evTs.erosionLevel > 0 /\ evTs.oceanLevel > 0
    /\ evTs.climaticShift > 0 /\ evTs.atmosphericEvolution > 0 /\ evTs.weatherCycle > 0
    /\ evOut.climate # evBase.climate
    /\ evOut.atmosphere # evBase.atmosphere
    /\ evOut.clouds # evBase.clouds

InUnit(v) == 0 <= v /\ v <= Milli

\* C7: each of the six evolved fields lies in [0, 1], for samples in [-1, 1]
\* and whichever of the four gating knobs are above 0.
C7_EvolvedFieldsInUnitRange ==
    evOut # None =>
        /\ InUnit(evOut.mountainDensity)
        /\ InUnit(evOut.coastlineComplexity)
        /\ InUnit(evOut.landWaterRatio)
        /\ InUnit(evOut.climate)
        /\ InUnit(evOut.atmosphere)
        /\ InUnit(evOut.clouds)

\* All four branches taken, with fields saturated at both ends of the range.
C7_Witness ==
    /\ evOut # None
    /\ evTs.geologicalTime > 0 /\ evTs.climaticShift > 0
    /\ evTs.atmosphericEvolution > 0 /\ evTs.weatherCycle > 0
    /\ evBase.landWaterRatio = 0 /\ evTs.oceanLevel < 0 /\ evOut.landWaterRatio = 0
    /\ evBase.clouds = Milli /\ evOut.clouds = Milli
    /\ evOut.coastlineComplexity < evBase.coastlineComplexity

---------------------------------------------------------------------------
(* Claims about the storms of the weather system *)

Updated == lastUpdate.op = "update"

ActiveStorms == {stormSystems[i] : i \in DOMAIN stormSystems}

RemovedIds == {r.id : r \in removed}

\* Every storm an update found is either still active or among the removed.
EveryStormKeptOrRemoved ==
    Updated =>
        /\ lastUpdate.before \ ActiveIds = RemovedIds
        /\ RemovedIds \cap ActiveIds = {}

\* C8 as stated: update removes a storm exactly when, after aging and the
\* lifecycle, age >= lifespan or intensity < 0.1, and keeps every other storm.
C8_RemovedExactlyBelowFloor ==
    /\ EveryStormKeptOrRemoved
    /\ \A r \in removed : r.age >= r.lifespan \/ r.intensity < 100
    /\ \A s \in ActiveStorms : s.age < s.lifespan /\ s.intensity >= 100

\* C8 as the code has it: update removes a storm exactly when, after aging and
\* the lifecycle, age >= lifespan or intensity <= 0.1, and keeps every other
\* storm; so every active storm has age < lifespan and intensity > 0.1.
C8_RemovedExactlyAtOrBelowFloor ==
    /\ EveryStormKeptOrRemoved
    /\ \A r \in removed : r.age >= r.lifespan \/ r.intensity <= 100
    /\ \A s \in ActiveStorms : s.age < s.lifespan /\ s.intensity > 100

\* An update has removed a storm whose intensity is exactly 0.1 before the end
\* of its lifespan.
C8_Witness ==
    /\ Updated
    /\ \E r \in removed : r.intensity = 100 /\ r.age < r.lifespan /\ r.age > 0

\* The envelope of a storm of target intensity I at its age: I * age / (0.2 *
\* lifespan) in the first fifth of the lifespan, I up to four fifths, then
\* falling linearly to 0.
Envelope(storm) ==
    LET growth == storm.lifespan \div 5
    IN  IF storm.age < growth
        THEN (storm.age * storm.target) \div growth
        ELSE IF storm.age > 4 * growth
             THEN (storm.target * (storm.lifespan - storm.age)) \div growth
             ELSE storm.target

Near(a, b) == a - b <= 2 /\ b - a <= 2

\* C9: the intensity of every storm that has been updated is the envelope of
\* its target intensity at its age (up to the rounding of the last digit).
C9_IntensityFollowsEnvelope ==
    \A s \in ActiveStorms : s.age > 0 => Near(s.intensity, Envelope(s))

\* C10: every active storm is eventually removed while updates keep letting
\* time pass, no active storm has reached its lifespan, and a removed storm is
\* never active again.
C10_NoStormPersists ==
    /\ \A id \in 1..MaxSpawns : (id \in ActiveIds) ~> (id \notin ActiveIds)
    /\ [](\A s \in ActiveStorms : s.age < s.lifespan)
    /\ [][\A id \in 1..nextId : id \notin ActiveIds => id \notin ActiveIds']_vars

\* An update has removed a storm that lived through its steady phase to the
\* end of its lifespan.
C10_Witness ==
    /\ Updated
    /\ lastUpdate.deltaTime * lastUpdate.timeSpeed > 0
    /\ \E r \in removed : r.age >= r.lifespan
    /\ stormSystems = << >>

SpawnCeiling(type) ==
    CASE type = "cyclone" -> 1200
      [] type = "dust"    -> 800
      [] OTHER            -> Milli

WeatherCalled(name) == lastUpdate'.op = name /\ lastQuery' = NoOp

\* The storms of the next state that are not storms of this one.
AddedStorms == {s \in {stormSystems'[i] : i \in DOMAIN stormSystems'} : s.id \notin ActiveIds}

\* C12: a step adds at most one storm, and only an update that spawned does;
\* the added storm is the last of the array and has age 0 and rotation 0,
\* whatever time the update let pass.
C12_UpdateAddsAtMostOneStorm ==
    [][/\ Len(stormSystems') <= Len(stormSystems) + 1
       /\ Cardinality(AddedStorms) <= 1
       /\ \A s \in AddedStorms :
             /\ WeatherCalled("update") /\ lastUpdate'.spawned
             /\ s = stormSystems'[Len(stormSystems')]
             /\ s.age = 0 /\ s.rotation = 0]_vars

\* An update that let time pass has spawned a storm, which has age 0.
C12_Witness ==
    /\ Updated /\ lastUpdate.spawned
    /\ lastUpdate.deltaTime * lastUpdate.timeSpeed > 0
    /\ Len(stormSystems) = 1
    /\ stormSystems[1].age = 0 /\ weatherTime > 0

\* C13: reset leaves no storm and a clock of 0; getActiveStorms and
\* getWeatherStats called after it report none; and no step of update, reset,
\* getCurrentWeatherPattern, getWeatherStats or getActiveStorms changes the
\* wind lattice or the temperature map.
C13_ResetClearsStormsKeepsLattices ==
    /\ [][/\ WeatherCalled("reset") => stormSystems' = << >> /\ weatherTime' = 0
          /\ lattices' = lattices]_vars
    /\ [](lastUpdate.op = "reset" =>
            /\ lastQuery.op = "getWeatherStats" => lastQuery.result.activeStorms = 0
            /\ lastQuery.op = "getActiveStorms" => lastQuery.result = << >>)
    /\ [](lattices = BuiltLattices)

\* getWeatherStats has been called after a reset that found a storm.
C13_Witness ==
    /\ lastUpdate.op = "reset"
    /\ lastUpdate.before # {}
    /\ lastQuery.op = "getWeatherStats"
    /\ lastQuery.result.activeStorms = 0

PatternAsked == lastQuery.op = "getCurrentWeatherPattern"

\* The influence of each storm on the position asked about.
InfluencesAsked ==
    {Influence(lastQuery.arguments.position, stormSystems[i]) : i \in DOMAIN stormSystems}

\* C14: the five clamped outputs of getCurrentWeatherPattern lie in [0,1]; the
\* storm contribution behind them is the largest single influence (0 without
\* a storm in range), not the sum; and the call leaves storms and clock alone.
C14_PatternInUnitRangeFromMaxInfluence ==
    /\ [](PatternAsked =>
            LET r == lastQuery.result
                n == lastQuery.arguments.samples
            IN  /\ \A v \in {r.cloudDensity, r.stormIntensity, r.windSpeed,
                              r.precipitation} : v \in 0..Milli
                /\ r.temperature.number /\ r.temperature.value \in 0..Milli
                /\ \E top \in InfluencesAsked \cup {0} :
                      /\ \A other \in InfluencesAsked : other <= top
                      /\ r.cloudDensity = Clamp01((n.cloud + Milli) \div 2 + (top * 3) \div 10)
                      /\ r.precipitation = Clamp01((top * 8) \div 10 + (n.cloud + Milli) \div 4)
                      /\ r.pressure = 500 + (n.cloud + n.storm) \div 4 + (top * 2) \div 10)
    /\ [][lastQuery' # lastQuery =>
             stormSystems' = stormSystems /\ weatherTime' = weatherTime]_vars

\* A position inside the radius of two storms was asked about: the cyclone
\* contributes more than the thunderstorm, and the result is below the clamp.
C14_Witness ==
    /\ PatternAsked
    /\ Len(stormSystems) = 2
    /\ \A i \in DOMAIN stormSystems :
          Influence(lastQuery.arguments.position, stormSystems[i]) > 0
    /\ Cardinality(InfluencesAsked) = 2
    /\ lastQuery.result.cloudDensity < Milli

\* The indices getTemperatureAt computes for the position asked about are
\* inside the 36 x 72 lattice.
AskedInsideLattice ==
    LET position == lastQuery.arguments.position
    IN  /\ position.y \in (0 - Milli)..Milli
        /\ LatIndex(position).value \in 0..35
        /\ LonIndex(position).value \in 0..71

\* C15: for every position the temperature returned is a number: the stored
\* cell when both indices are inside the lattice, 0.5 otherwise, including
\* |y| > 1 (NaN), latitude 180 and longitude 360.
C15_TemperatureTotal ==
    PatternAsked =>
        LET position == lastQuery.arguments.position
            t        == lastQuery.result.temperature
        IN  /\ t.number
            /\ IF AskedInsideLattice
               THEN t.value = TemperatureCell(LatIndex(position).value, LonIndex(position).value)
               ELSE t.value = 500

\* The position asked about is the pole at latitude 180 (row index 36, one
\* past the last row), and the default came back.
C15_Witness ==
    /\ PatternAsked
    /\ lastQuery.arguments.position = PositionOf(0, Milli, 0)
    /\ LatIndex(lastQuery.arguments.position) = Number(36)
    /\ lastQuery.result.temperature = Number(500)

---------------------------------------------------------------------------
(* Claims about the time description *)

Described == lastQuery.op = "getTimeDescription"

\* The description shows `shown` tenths of the unit of `size` years under the
\* suffix, for a clock inside the tenth it names.
ShowsTenths(shown, size, suffix) ==
    /\ lastQuery.result = NumberString(shown) \o suffix
    /\ shown * (size \div 10) <= lastQuery.arguments
    /\ lastQuery.arguments - shown * (size \div 10) < size \div 10

\* The tier of the clock decides the label: whole years below 100, whole
\* thousands with "K years" below 100,000, "M years" below 1,000,000 and
\* "B years" from there on.
LabelledByTier ==
    LET time == lastQuery.arguments
    IN  IF time < 100 THEN lastQuery.result = ToString(time) \o " years"
        ELSE IF time < 100000
             THEN lastQuery.result = ToString(time \div 1000) \o "K years"
             ELSE IF time < 1000000
                  THEN \E shown \in 0..9 : ShowsTenths(shown, 1000000, "M years")
                  ELSE \E shown \in 0..20 : ShowsTenths(shown, 1000000000, "B years")

\* C16 as stated: the label follows the tier of the clock, and a clock of
\* 250000 is described as "2.5M years".
C16_TiersAndQuarterMillionExample ==
    Described =>
        /\ LabelledByTier
        /\ lastQuery.arguments = 250000 => lastQuery.result = "2.5M years"

\* C16 as the code has it: the label follows the tier of the clock; in the
\* "M years" tier the number shown is the clock in millions of years cut to
\* one decimal, Math.floor(time / 100000) / 10, so a clock of 250000 is
\* described as "0.2M years".
C16_TiersTruncatedToOneDecimal ==
    Described =>
        /\ LabelledByTier
        /\ lastQuery.arguments = 250000 => lastQuery.result = "0.2M years"

\* The clock described is 250000 and the description is "0.2M years".
C16_Witness ==
    /\ Described
    /\ lastQuery.arguments = 250000
    /\ lastQuery.result = "0.2M years"

---------------------------------------------------------------------------
(* Claims about the colour palettes *)

\* getColor(height, seaLevel) was asked of a palette that getPalette returned.
ColorAsked(height, seaLevel) ==
    /\ lastQuery.op = "getColor"
    /\ lastQuery.arguments.height = height
    /\ lastQuery.arguments.seaLevel = seaLevel
    /\ ~lastQuery.result.threw

\* The palette the colour was asked of.
AskedPalette == GetPalette(lastQuery.arguments.climate).value

\* C17 as stated: with seaLevel 0.5, getColor(0.3, 0.5) is an interpolation of
\* the deepOcean and shallowWater anchors with a factor strictly between 0
\* and 1, and is not the deepOcean anchor.
C17_BelowSeaLevelIsInterpolated ==
    ColorAsked(300, 500) =>
        /\ \E factor \in 1..999 :
              lastQuery.result.value =
                  InterpolateColor(AskedPalette.deepOcean, AskedPalette.shallowWater, factor)
        /\ lastQuery.result.value # AskedPalette.deepOcean

\* C17 as the code has it: a height below 0.7 x seaLevel gets the deepOcean
\* anchor itself, so getColor(0.3, 0.5) is deepOcean (0.3 < 0.35); a height
\* from 0.7 x seaLevel up to seaLevel gets the interpolation of deepOcean and
\* shallowWater with factor (height - 0.7 seaLevel) / (0.3 seaLevel) in [0,1).
C17_DeepOceanBelowSevenTenths ==
    /\ ColorAsked(300, 500) => lastQuery.result.value = AskedPalette.deepOcean
    /\ \A seaLevel \in SeaLevels, height \in Heights :
          ColorAsked(height, seaLevel) =>
              /\ 10 * height < 7 * seaLevel => lastQuery.result.value = AskedPalette.deepOcean
              /\ 10 * height >= 7 * seaLevel /\ height < seaLevel =>
                    \E factor \in 0..999 :
                       /\ factor * 3 * seaLevel <= (10 * height - 7 * seaLevel) * Milli
                       /\ (10 * height - 7 * seaLevel) * Milli < (factor + 1) * 3 * seaLevel
                       /\ lastQuery.result.value =
                              InterpolateColor(AskedPalette.deepOcean,
                                               AskedPalette.shallowWater, factor)

\* getColor(0.3, 0.5) was asked of the Verdant palette and returned its
\* deepOcean anchor, which is not its shallowWater anchor.
C17_Witness ==
    /\ ColorAsked(300, 500)
    /\ lastQuery.arguments.climate = Milli
    /\ lastQuery.result.value = Rgb(0, 100, 100)
    /\ AskedPalette.shallowWater = Rgb(0, 150, 150)

\* C18 as stated: with seaLevel 0.5, getColor(0.95, 0.5) is the polar anchor.
C18_HighGroundIsPolar ==
    ColorAsked(950, 500) => lastQuery.result.value = AskedPalette.polar

\* C18 as the code has it: the polar anchor is returned from seaLevel + 0.9
\* on (1.4 for seaLevel 0.5); below that, from seaLevel + 0.7, the colour is
\* interpolated between mountain and peak, and getColor(0.95, 0.5) lies in
\* the band from seaLevel + 0.3 to seaLevel + 0.5: the interpolation of the
\* lowland and highland anchors with factor 0.75.
C18_PolarFromSeaLevelPlusNineTenths ==
    /\ ColorAsked(950, 500) =>
          lastQuery.result.value =
              InterpolateColor(AskedPalette.lowland, AskedPalette.highland, 750)
    /\ \A seaLevel \in SeaLevels, height \in Heights :
          ColorAsked(height, seaLevel) =>
              /\ height >= seaLevel + 900 => lastQuery.result.value = AskedPalette.polar
              /\ height >= seaLevel + 700 /\ height < seaLevel + 900 =>
                    lastQuery.result.value =
                        InterpolateColor(AskedPalette.mountain, AskedPalette.peak,
                                         ((height - seaLevel - 700) * Milli) \div 200)

\* getColor(0.95, 0.5) was asked of the Icy palette and returned a colour
\* that is not its polar anchor.
C18_Witness ==
    /\ ColorAsked(950, 500)
    /\ lastQuery.arguments.climate = 0
    /\ lastQuery.result.value = Rgb(249, 245, 243)
    /\ AskedPalette.polar = Rgb(255, 255, 255)

PaletteAsked == lastQuery.op = "getPalette"

\* C19: getPalette(1) returns the last palette as it stands in the table; for
\* a climate in [0,1) the tint is that of palettes[floor(climate x 3)] and each
\* anchor is the interpolation of that palette and the next by the fraction.
C19_PaletteInterpolatedTintDiscrete ==
    PaletteAsked =>
        LET climate  == lastQuery.arguments.climate
            index    == (climate * 3) \div Milli
            fraction == climate * 3 - index * Milli
        IN  /\ climate = Milli =>
                  /\ ~lastQuery.result.threw
                  /\ lastQuery.result.value = palettes[Len(palettes)]
            /\ climate \in 0..999 =>
                  /\ ~lastQuery.result.threw
                  /\ lastQuery.result.value.atmosphereColor = palettes[index + 1].atmosphereColor
                  /\ \A a \in Anchors :
                        lastQuery.result.value[a] =
                            InterpolateColor(palettes[index + 1][a], palettes[index + 2][a],
                                             fraction)

\* getPalette(0.999) returned the tint of the Arid palette with a lowland
\* colour that is all but the Verdant one.
C19_Witness ==
    /\ PaletteAsked
    /\ lastQuery.arguments.climate = 999
    /\ lastQuery.result.value.atmosphereColor = 16753920
    /\ lastQuery.result.value.lowland = Rgb(1, 100, 0)

\* C20: a climate below 0 gets the palette of getPalette(0) and a climate
\* above 1 the palette of getPalette(1), and neither call throws.
C20_ClimateClamped ==
    PaletteAsked =>
        /\ ~lastQuery.result.threw
        /\ lastQuery.arguments.climate < 0 => lastQuery.result = GetPalette(0)
        /\ lastQuery.arguments.climate > Milli => lastQuery.result = GetPalette(Milli)

---------------------------------------------------------------------------
(* Claims about the temporal effects *)

EffectsAsked == lastQuery.op = "getTemporalEffects"

\* The flags the same engine returns at the same clock with the display
\* switch given.
EffectsWithSwitch(shown) ==
    TemporalEffectsOf(lastQuery.arguments.base, lastQuery.arguments.time,
                      WithEffectsShown(lastQuery.arguments.ts, shown))

\* C21: auroras, meteorShowers and solarFlares are false whenever
\* showTemporalEffects is false; lightningStorms and dustStorms are the same
\* with the switch on and off, and can be true only when weatherCycle > 0.5 and
\* weatherCycle > 0.3; polarIceCaps is true exactly when geologicalTime > 0.3
\* and the climate of the base settings is below 0.6, whatever the clock is and
\* whatever the evolved settings are.
C21_EffectsGating ==
    EffectsAsked =>
        LET ts      == lastQuery.arguments.ts
            effects == lastQuery.result
        IN  /\ ~ts.showTemporalEffects =>
                  ~effects.auroras /\ ~effects.meteorShowers /\ ~effects.solarFlares
            /\ \A shown \in BOOLEAN :
                  /\ EffectsWithSwitch(shown).lightningStorms = effects.lightningStorms
                  /\ EffectsWithSwitch(shown).dustStorms = effects.dustStorms
            /\ effects.lightningStorms => ts.weatherCycle > 500
            /\ effects.dustStorms => ts.weatherCycle > 300
            /\ effects.polarIceCaps <=>
                  (ts.geologicalTime > 300 /\ heap[BaseRef].climate < 600)

\* With the switch off and the clock advanced, a call returned lightning and
\* ice caps for a base climate of 0.599, while the evolved settings of that
\* engine have a climate of 0.6 or more.
C21_Witness ==
    /\ EffectsAsked
    /\ ~lastQuery.arguments.ts.showTemporalEffects
    /\ lastQuery.arguments.time > 0
    /\ lastQuery.result.lightningStorms
    /\ lastQuery.result.polarIceCaps
    /\ heap[BaseRef].climate = 599
    /\ heap["evolved"] # None
    /\ heap["evolved"].climate >= 600

---------------------------------------------------------------------------
(* Claims about the renderer *)

RendererDid(name) == lastOp.op = name

\* The settings effect ran for settings whose seed differs from the one before.
SeedChanged == RendererDid("settingsEffect") /\ lastOp.before.settings.seed # settings.seed

\* The settings effect ran for settings with the seed of the ones before.
SeedKept == RendererDid("settingsEffect") /\ lastOp.before.settings.seed = settings.seed

EvolvedFrom(s) ==
    {Evolved(PlanetOf(s), TemporalOf(s), NoiseSamples(s.seed, time, TemporalOf(s))) :
        time \in 0..(MaxClock + 1)}

\* C23: after every settings change, the settings given to generatePlanetTexture
\* and generateCloudTexture carry the new seed and are the new base values or
\* values evolved from them, also when geologicalTime > 0.
C23_TexturesFromNewSettings ==
    RendererDid("settingsEffect") =>
        \A texture \in {textures.planet, textures.clouds} :
            /\ texture.seed = settings.seed
            /\ texture = PlanetOf(settings) \/ texture \in EvolvedFrom(settings)

\* C25: an animation frame while the current settings are un-paused advances
\* the clock by the measured delta times the current timeSpeed, and a frame
\* while they are paused leaves the clock as it is.
C25_FrameStepsOnCurrentSettings ==
    [][lastOp'.op \in {"animate", "updateTime"} =>
          currentTime' = IF settings.temporalPaused THEN currentTime
                         ELSE currentTime + lastOp'.deltaTime * settings.timeSpeed]_vars

\* C26: a settings change that leaves the seed as it was keeps the state of
\* both engines: the clock, the history and the storms.
C26_SameSeedKeepsEngines ==
    SeedKept =>
        /\ currentTime = lastOp.before.time
        /\ Len(snapshots) = lastOp.before.saved
        /\ Len(stormSystems) = lastOp.before.storms


TexelAsked(name) == lastQuery.op = name

---------------------------------------------------------------------------
(* Claims about the wind drift, the recorder, the camera and the history *)

\* The storm lies in the volume spawnRandomStorm draws x and y from.
InSpawnVolume(storm) ==
    /\ storm.x \in (0 - Milli)..Milli
    /\ storm.y \in (0 - Milli)..Milli

\* C27: in every update with deltaTime > 0, the lattice index computed for a
\* storm whose x and y are in [-1,1] lies within the wind lattice of 19 x 37
\* vectors, so that the storm drifts.
C27_StormsInVolumeDrift ==
    [][(lastUpdate'.op = "update" /\ lastUpdate'.deltaTime > 0) =>
          \A i \in DOMAIN stormSystems :
              InSpawnVolume(stormSystems[i]) =>
                  /\ WindPatternLength = 19 * 37
                  /\ WindIndex(stormSystems[i].x, stormSystems[i].y)
                         \in 0..(WindPatternLength - 1)]_vars


\* A recording was ended before its duration had elapsed by the timeout of
\* another recording.
EndedByForeignTimer ==
    /\ lastOp.op = "autoStop"
    /\ lastOp.stopped # None
    /\ lastOp.stopped.id # lastOp.timer
    /\ now < lastOp.stopped.startedAt + lastOp.stopped.duration

\* C28: a recording stays active until its own auto-stop fires or
\* stopRecording is called: the timeout of an earlier recording never stops a
\* later one before its duration has elapsed; and startRecording during an
\* active recording throws and leaves that recording running.
C28_RecordingEndsOnlyByOwnTimerOrStop ==
    /\ ~EndedByForeignTimer
    /\ (lastOp.op = "startRecording" /\ lastOp.before.isRecording) =>
          /\ lastOp.threw
          /\ recorder = lastOp.before


\* C29: at most one auto-orbit timer is scheduled at any time, and after
\* disableAutoOrbit none is: no interval of an earlier enableAutoOrbit keeps
\* rotating the camera.
C29_AtMostOneOrbitTimer ==
    /\ Cardinality(Scheduled) <= 1
    /\ autoOrbitInterval = 0 => Scheduled = {}
    /\ lastOp.op = "orbitHorizontal" => lastOp.interval = autoOrbitInterval


\* The last `count` entries of a sequence, all of it when it is shorter.
LastOf(sequence, count) ==
    SubSeq(sequence, Max(1, Len(sequence) - count + 1), Len(sequence))

\* C30: the history holds at most 100 snapshots; they are the most recently
\* saved ones in save order, each with the clock value of its save; and a
\* change of the array getTemporalHistory returned leaves the history as it is.
C30_HistoryKeepsLastHundred ==
    /\ Len(snapshots) <= 100
    /\ Len(snapshots) = Min(100, Len(saveLog))
    /\ \A i \in DOMAIN snapshots :
          snapshots[i].timestamp = LastOf(saveLog, 100)[i]
    /\ lastQuery.op = "getTemporalHistory" =>
          \/ lastQuery.result.value = snapshots
          \/ lastOp.op = "modifyReturned" /\ lastQuery.result.value = << >>

\* 101 snapshots were saved with the clock moved in between: the first one
\* saved is gone, the history starts with the second and ends with the 101st,
\* and the caller has emptied the array it was given.
C30_Witness ==
    /\ Len(saveLog) = 101
    /\ Len(snapshots) = 100
    /\ saveLog[1] # saveLog[2]
    /\ snapshots[1].timestamp = saveLog[2]
    /\ snapshots[100].timestamp = saveLog[101]
    /\ saveLog[101] # saveLog[100]
    /\ lastOp.op = "modifyReturned"
    /\ lastQuery.result.value = << >>

====
